---- MODULE Spec2Model ----
(***************************************************************************)
(* A model of the search-query front end: the finite-state-machine         *)
(* tokenizer (tokenizers/fsm), the shift-reduce parser                     *)
(* (parsers/shift_reduce) and the recursive-descent parser                 *)
(* (parsers/recdec).                                                       *)
(*                                                                         *)
(* Text is a sequence of one-character strings.  The inputs are ASCII, so  *)
(* a byte offset and a character index are the same number.                *)
(***************************************************************************)
EXTENDS Integers, Sequences, FiniteSets, TLC

VARIABLES
    inp,          \* Tokenizer.inp: the input text
    position,     \* Tokenizer.position: the cursor, a byte offset into inp
    state,        \* Tokenizer.state: the StateMachine state
    out,          \* the vector scan_until_none fills
    pc,           \* where the pipeline stands
    tokres,       \* what token_spans returned
    sr_input,     \* ShiftReduce.input
    sr_position,  \* ShiftReduce.position
    look_ahead,   \* ShiftReduce.look_ahead
    stack,        \* ShiftReduce.stack
    result,       \* what produce_tree returned, or the panic that ended it
    rd_pc,        \* where the recdec parser stands
    eoi_fold,     \* the argument of generate_primitive_ast
    rd_index,     \* the index of its loop over the token stream, from 1
    scratch_space, \* its stack of saved frames
    current,      \* the frame it is filling
    tree,         \* recdec's Parser.tree
    rd_result,    \* what generate_primitive_ast returned, or the panic that ended it
    store,        \* QuickMap.store: the entry of each tag
    calls         \* the QuickMap calls made so far, each with what it found and returned

rd_vars == <<rd_pc, eoi_fold, rd_index, scratch_space, current, tree, rd_result>>

qm_vars == <<store, calls>>

vars == <<inp, position, state, out, pc, tokres,
          sr_input, sr_position, look_ahead, stack, result,
          rd_pc, eoi_fold, rd_index, scratch_space, current, tree, rd_result,
          store, calls>>

-----------------------------------------------------------------------------
(* Characters and text *)

\* Option::None of a matcher
NONE == -1

\* the width of the matchers' return type, Option<u8>
U8 == 256

Digit == {"0", "1", "2", "3", "4", "5", "6", "7", "8", "9"}

\* char::is_whitespace, str::trim, str::trim_end and the regex class \s, on ASCII
Whitespace == {" ", "\t", "\n", "\r", "\f"}

Upper == <<"A", "B", "C", "D", "E", "F", "G", "H", "I", "J", "K", "L", "M",
           "N", "O", "P", "Q", "R", "S", "T", "U", "V", "W", "X", "Y", "Z">>

Lower == <<"a", "b", "c", "d", "e", "f", "g", "h", "i", "j", "k", "l", "m",
           "n", "o", "p", "q", "r", "s", "t", "u", "v", "w", "x", "y", "z">>

\* char::to_ascii_lowercase
to_ascii_lowercase_char(c) ==
    IF \E i \in 1..Len(Upper) : Upper[i] = c
    THEN Lower[CHOOSE i \in 1..Len(Upper) : Upper[i] = c]
    ELSE c

\* str::to_ascii_lowercase
to_ascii_lowercase(s) == [i \in 1..Len(s) |-> to_ascii_lowercase_char(s[i])]

\* str::starts_with
starts_with(s, p) == Len(s) >= Len(p) /\ SubSeq(s, 1, Len(p)) = p

\* &s[n..]
SliceFrom(s, n) == SubSeq(s, n + 1, Len(s))

\* &s[a..b]
Slice(s, a, b) == SubSeq(s, a + 1, b)

\* s.trim_end().len()
trim_end_len(s) ==
    IF \A i \in 1..Len(s) : s[i] \in Whitespace
    THEN 0
    ELSE CHOOSE n \in 1..Len(s) :
            s[n] \notin Whitespace /\ \A j \in (n + 1)..Len(s) : s[j] \in Whitespace

\* s.trim().len()
trim_len(s) ==
    IF \A i \in 1..Len(s) : s[i] \in Whitespace
    THEN 0
    ELSE LET first == CHOOSE n \in 1..Len(s) :
                         s[n] \notin Whitespace /\ \A j \in 1..(n - 1) : s[j] \in Whitespace
         IN trim_end_len(s) - first + 1

\* the number of leading whitespace characters: chars().take_while(is_whitespace).count()
leading_whitespace(s) ==
    IF \A i \in 1..Len(s) : s[i] \in Whitespace
    THEN Len(s)
    ELSE (CHOOSE n \in 1..Len(s) :
            s[n] \notin Whitespace /\ \A j \in 1..(n - 1) : s[j] \in Whitespace) - 1

\* the character at 0-based offset n, "" when there is none: chars().nth(n)
nth(s, n) == IF n + 1 <= Len(s) THEN s[n + 1] ELSE ""

\* n decimal digits starting at 0-based offset p
DigitsAt(s, p, n) == p + n <= Len(s) /\ \A k \in (p + 1)..(p + n) : s[k] \in Digit

\* the number of decimal digits starting at 0-based offset p (the regex \d+ or \d*)
DigitRun(s, p) ==
    IF \A k \in (p + 1)..Len(s) : s[k] \in Digit
    THEN IF p <= Len(s) THEN Len(s) - p ELSE 0
    ELSE (CHOOSE k \in (p + 1)..Len(s) :
            s[k] \notin Digit /\ \A j \in (p + 1)..(k - 1) : s[j] \in Digit) - 1 - p

-----------------------------------------------------------------------------
(* The identifier scanner, tokenizers/fsm/token_and_field.rs *)

is_single_char_termination(c) == c \in {"(", ")", "*", "?", ",", "\"", "~", "^"}

\* cret: the length of the lexeme that ends at character data_size, trimmed
cret(odata, data_size) == trim_len(Slice(odata, 0, data_size))

\* match_n(d, m), with d the iterator whose next character is d[i] and c the
\* number of characters of m matched so far.  It returns whether it matched and
\* where it left the iterator: a failed match keeps what it consumed.
RECURSIVE match_n(_, _, _, _)
match_n(d, i, m, c) ==
    IF i > Len(d) THEN [ok |-> TRUE, next |-> i]
    ELSE IF m[c + 1] # d[i] THEN [ok |-> FALSE, next |-> i]
    ELSE IF c + 1 >= Len(m) THEN [ok |-> TRUE, next |-> i]
    ELSE match_n(d, i + 1, m, c + 1)

\* match_next_any(d, m): consumes the next character when it is one of m
match_next_any(d, i, m) == i <= Len(d) /\ d[i] \in m

\* match_1(d, m): peeks only
match_1(d, i, m) == i <= Len(d) /\ d[i] = m

\* one turn of the while loop of FieldOrTagLexem::find_end, d[i] being the
\* character data.next() yields: either the lexeme ends (ret is what cret
\* returns) or the loop goes on with d[next]
Ends(d, pos) == [done |-> TRUE, ret |-> cret(d, pos)]
GoesOn(i) == [done |-> FALSE, next |-> i]

find_end_turn(d, i) ==
    LET chr == d[i]
        pos == i - 1
        nx  == i + 1
        and == match_n(d, nx, <<"N", "D">>, 0)
        not == match_n(d, nx, <<"O", "T">>, 0)
    IN  IF chr = "\\" THEN
            IF match_next_any(d, nx, {"A", "O", "N", "&", "|"}) THEN GoesOn(nx + 2)
            ELSE IF pos = 0 /\ match_next_any(d, nx, {"!", "-"}) THEN GoesOn(nx + 2)
            ELSE IF nx <= Len(d) /\ is_single_char_termination(d[nx]) THEN GoesOn(nx + 1)
            ELSE GoesOn(nx)
        ELSE IF is_single_char_termination(chr) THEN Ends(d, pos)
        ELSE IF chr = "." THEN Ends(d, pos)
        ELSE IF chr \in {"-", "!"} /\ pos = 0 THEN Ends(d, pos)
        ELSE IF chr = "A" THEN (IF and.ok THEN Ends(d, pos) ELSE GoesOn(and.next))
        ELSE IF chr = "O" /\ match_1(d, nx, "R") THEN Ends(d, pos)
        ELSE IF chr = "N" THEN (IF not.ok THEN Ends(d, pos) ELSE GoesOn(not.next))
        ELSE IF chr = "&" /\ match_1(d, nx, "&") THEN Ends(d, pos)
        ELSE IF chr = "|" /\ match_1(d, nx, "|") THEN Ends(d, pos)
        ELSE GoesOn(nx)

\* the while loop of FieldOrTagLexem::find_end, and the cret(data_size) after it
RECURSIVE find_end_loop(_, _)
find_end_loop(d, i) ==
    IF i > Len(d) THEN cret(d, Len(d))
    ELSE IF find_end_turn(d, i).done THEN find_end_turn(d, i).ret
    ELSE find_end_loop(d, find_end_turn(d, i).next)

\* FieldOrTagLexem::find_end
find_end(odata) == find_end_loop(odata, 1)

\* TagLexem::find_end
TagLexem_end(s, eot) ==
    IF nth(s, eot) # ""
    THEN IF nth(s, eot) # "." THEN eot ELSE 0
    ELSE eot

TagLexem_find_end(s) == TagLexem_end(s, find_end(s))

\* FieldLexem::find_end
FieldLexem_end(s, eot) ==
    IF nth(s, eot) # ""
    THEN IF nth(s, eot) = "." THEN eot + 1 ELSE 0
    ELSE 0

FieldLexem_find_end(s) == FieldLexem_end(s, find_end(s))

-----------------------------------------------------------------------------
(* Operators and comparators: infix.rs, prefix.rs, comp.rs *)

InfixOperator_matches(v, s) ==
    IF v = "And"
    THEN IF starts_with(s, <<",">>) THEN 1
         ELSE IF starts_with(s, <<"&", "&">>) THEN 2
         ELSE IF starts_with(s, <<"A", "N", "D">>) THEN 3
         ELSE NONE
    ELSE IF starts_with(s, <<"|", "|">>) \/ starts_with(s, <<"O", "R">>) THEN 2
         ELSE NONE

PrefixOperator_matches(v, s) ==
    IF v = "Not"
    THEN IF starts_with(s, <<"N", "O", "T">>) THEN 3
         ELSE IF starts_with(s, <<"!">>) \/ starts_with(s, <<"-">>) THEN 1
         ELSE NONE
    ELSE IF v = "Boost"
    THEN IF starts_with(s, <<"^">>) THEN 1 ELSE NONE
    ELSE IF starts_with(s, <<"~">>) THEN 1 ELSE NONE

\* the spellings Comparator::matches lists, comparator by comparator
ComparatorSpellings(v) ==
    CASE v = "GreaterThanOrEqual" ->
            {<<"g","t","e",":">>, <<"G","t","e",":">>, <<"g","T","e",":">>, <<"g","t","E",":">>,
             <<"G","T","e",":">>, <<"G","t","E",":">>, <<"G","T","E",":">>}
      [] v = "GreaterThan" ->
            {<<"g","t",":">>, <<"G","t",":">>, <<"g","T",":">>, <<"G","T",":">>}
      [] v = "Equal" ->
            {<<"e","q",":">>, <<"e","Q",":">>, <<"E","q",":">>, <<"E","Q",":">>}
      [] v = "LessThan" ->
            {<<"l","t",":">>, <<"l","T",":">>, <<"L","t",":">>, <<"L","T",":">>}
      [] v = "LessThanOrEqual" ->
            {<<"l","t","e",":">>, <<"L","t","e",":">>, <<"l","T","e",":">>, <<"l","t","E",":">>,
             <<"L","T","e",":">>, <<"L","t","E",":">>, <<"L","T","E",":">>}
      [] v = "NotEqual" ->
            {<<"n","e","q",":">>, <<"N","e","q",":">>, <<"n","E","q",":">>, <<"n","e","Q",":">>,
             <<"N","E","q",":">>, <<"N","e","Q",":">>, <<"N","E","Q",":">>}
      [] v = "Contains" ->
            {<<"h","a","s",":">>, <<"H","a","s",":">>, <<"h","A","s",":">>, <<"h","a","S",":">>,
             <<"H","A","s",":">>, <<"H","a","S",":">>, <<"H","A","S",":">>}

\* the length each arm of Comparator::matches slices off and returns
ComparatorLen(v) == IF v \in {"GreaterThan", "Equal", "LessThan"} THEN 3 ELSE 4

Comparator_matches(v, s) ==
    IF Len(s) >= ComparatorLen(v) /\ Slice(s, 0, ComparatorLen(v)) \in ComparatorSpellings(v)
    THEN ComparatorLen(v)
    ELSE NONE

-----------------------------------------------------------------------------
(* Data literals, tokenizers/fsm/data.rs.  Each regular expression is          *)
(* modelled by the end offset of its leftmost-first match.                     *)

\* `x.end() as u8`, `o as u8`
as_u8(n) == n % U8

\* FLOAT: ^[+-]{0,1}\d+\.\d+
FLOAT_find(s) ==
    LET sign == IF nth(s, 0) \in {"+", "-"} THEN 1 ELSE 0
        int  == DigitRun(s, sign)
        frac == DigitRun(s, sign + int + 1)
    IN  IF int >= 1 /\ nth(s, sign + int) = "." /\ frac >= 1
        THEN sign + int + 1 + frac
        ELSE NONE

\* INTEGER: ^[+-]{0,1}\d+
INTEGER_find(s) ==
    LET sign == IF nth(s, 0) \in {"+", "-"} THEN 1 ELSE 0
        int  == DigitRun(s, sign)
    IN  IF int >= 1 THEN sign + int ELSE NONE

\* ABS_DATE: ^YYYY(-MM(-DD)?)?((T| )HH(:MM(:SS)?)?)?([+-]HH(:MM)?|Z)?
\* Every group after the year is optional and greedy, so each is taken when it matches.
ABS_DATE_find(s) ==
    IF ~DigitsAt(s, 0, 4) THEN NONE
    ELSE
    LET year == 4
        date == IF nth(s, year) = "-" /\ DigitsAt(s, year + 1, 2)
                THEN IF nth(s, year + 3) = "-" /\ DigitsAt(s, year + 4, 2)
                     THEN year + 6 ELSE year + 3
                ELSE year
        time == IF nth(s, date) \in {"T", " "} /\ DigitsAt(s, date + 1, 2)
                THEN IF nth(s, date + 3) = ":" /\ DigitsAt(s, date + 4, 2)
                     THEN IF nth(s, date + 6) = ":" /\ DigitsAt(s, date + 7, 2)
                          THEN date + 9 ELSE date + 6
                     ELSE date + 3
                ELSE date
        offs == IF nth(s, time) \in {"+", "-"} /\ DigitsAt(s, time + 1, 2)
                THEN IF nth(s, time + 3) = ":" /\ DigitsAt(s, time + 4, 2)
                     THEN time + 6 ELSE time + 3
                ELSE IF nth(s, time) = "Z" THEN time + 1
                ELSE time
    IN  offs

\* the unit words of REL_DATE, in the order of its groups
RelUnits == << <<"y","e","a","r">>, <<"m","o","n","t","h">>, <<"w","e","e","k">>,
               <<"d","a","y">>, <<"h","o","u","r">>, <<"m","i","n","u","t","e">>,
               <<"s","e","c","o","n","d">> >>

\* the text w at 0-based offset p
WordAt(s, p, w) == starts_with(SliceFrom(s, p), w)

\* one group of REL_DATE at offset p, ((\d+ units?)\s+): the offset after it, or NONE
RelGroupAt(s, p, unit) ==
    LET n  == DigitRun(s, p)
        u  == p + n + 1
        e  == u + Len(unit)
        e2 == IF nth(s, e) = "s" THEN e + 1 ELSE e
        ws == leading_whitespace(SliceFrom(s, e2))
    IN  IF n >= 1 /\ nth(s, p + n) = " " /\ WordAt(s, u, unit) /\ e2 <= Len(s) /\ ws >= 1
        THEN e2 + ws
        ELSE NONE

\* REL_DATE from group k on, at offset p: the optional groups in order, then (ago|from now)
RECURSIVE RelFrom(_, _, _)
RelFrom(s, p, k) ==
    IF k > Len(RelUnits)
    THEN IF WordAt(s, p, <<"a","g","o">>) THEN p + 3
         ELSE IF WordAt(s, p, <<"f","r","o","m"," ","n","o","w">>) THEN p + 8
         ELSE NONE
    ELSE RelFrom(s, IF RelGroupAt(s, p, RelUnits[k]) # NONE
                    THEN RelGroupAt(s, p, RelUnits[k]) ELSE p, k + 1)

\* REL_DATE is not anchored: find_at(inp, 0) returns the leftmost match, wherever it starts
REL_DATE_find(s) ==
    LET starts == {p \in 0..Len(s) : RelFrom(s, p, 1) # NONE}
    IN  IF starts = {} THEN NONE
        ELSE RelFrom(s, CHOOSE p \in starts : \A q \in starts : p <= q, 1)

\* a regex match end, cast as the matcher returns it
FindAsU8(e) == IF e = NONE THEN NONE ELSE as_u8(e)

\* DataValueType::matches with a String matcher that accepts an opening quote
DataValueType_matches_string(v, s) ==
    CASE v = "Float"        -> FindAsU8(FLOAT_find(s))
      [] v = "Integer"      -> FindAsU8(INTEGER_find(s))
      [] v = "Boolean"      ->
            IF starts_with(to_ascii_lowercase(s), <<"t","r","u","e">>) THEN 4
            ELSE IF starts_with(to_ascii_lowercase(s), <<"y","e","s">>) THEN 3
            ELSE IF starts_with(to_ascii_lowercase(s), <<"f","a","l","s","e">>) THEN 5
            ELSE IF starts_with(to_ascii_lowercase(s), <<"n","o">>) THEN 2
            ELSE NONE
      [] v = "IP"           -> NONE
      [] v = "CIDR"         -> NONE
      [] v = "RelativeDate" -> FindAsU8(REL_DATE_find(s))
      [] v = "AbsoluteDate" -> FindAsU8(ABS_DATE_find(s))
      [] v = "String"       -> IF starts_with(s, <<"\"">>) THEN 1 ELSE NONE

DataValueType_matches(v, s) ==
    CASE v = "Float"        -> FindAsU8(FLOAT_find(s))
      [] v = "Integer"      -> FindAsU8(INTEGER_find(s))
      [] v = "Boolean"      ->
            IF starts_with(to_ascii_lowercase(s), <<"t","r","u","e">>) THEN 4
            ELSE IF starts_with(to_ascii_lowercase(s), <<"y","e","s">>) THEN 3
            ELSE IF starts_with(to_ascii_lowercase(s), <<"f","a","l","s","e">>) THEN 5
            ELSE IF starts_with(to_ascii_lowercase(s), <<"n","o">>) THEN 2
            ELSE NONE
      [] v = "IP"           -> NONE
      [] v = "CIDR"         -> NONE
      [] v = "RelativeDate" -> FindAsU8(REL_DATE_find(s))
      [] v = "AbsoluteDate" -> FindAsU8(ABS_DATE_find(s))
      [] v = "String"       -> NONE

-----------------------------------------------------------------------------
(* The state machine, tokenizers/fsm/state_machine.rs.  A state is a record    *)
(* [s |-> variant] or [s |-> variant, v |-> payload].                          *)

St(s) == [s |-> s]
StV(s, v) == [s |-> s, v |-> v]

Start == St("Start")
GroupStart == St("GroupStart")
GroupEnd == St("GroupEnd")
Field == St("Field")
Tag == St("Tag")
EndOfInput == St("EndOfInput")
InfixOperator(v) == StV("InfixOperator", v)
Comparator(v) == StV("Comparator", v)
PrefixOperator(v) == StV("PrefixOperator", v)
DataValue(v) == StV("DataValue", v)

to_token(st) ==
    CASE st.s = "Start"          -> "ROOT"
      [] st.s = "GroupStart"     -> "LPAREN"
      [] st.s = "GroupEnd"       -> "RPAREN"
      [] st.s = "InfixOperator"  -> IF st.v = "And" THEN "AND" ELSE "OR"
      [] st.s = "Comparator"     -> "RANGE"
      [] st.s = "PrefixOperator" ->
            (CASE st.v = "Boost" -> "BOOST" [] st.v = "Fuzz" -> "FUZZ" [] st.v = "Not" -> "NOT")
      [] st.s = "DataValue"      ->
            (CASE st.v = "AbsoluteDate" -> "ABSOLUTE_DATE"
               [] st.v = "Boolean"      -> "BOOLEAN"
               [] st.v = "CIDR"         -> "IP_CIDR"
               [] st.v = "Float"        -> "FLOAT"
               [] st.v = "IP"           -> "IP_CIDR"
               [] st.v = "Integer"      -> "INTEGER"
               [] st.v = "RelativeDate" -> "RELATIVE_DATE"
               [] st.v = "String"       -> "QUOTED_TERM")
      [] st.s = "Field"          -> "FIELD"
      [] st.s = "Tag"            -> "TAG"
      [] st.s = "EndOfInput"     -> "EOI"

\* the successors of an infix operator with Boolean put in front
InfixSuccessors_boolean ==
    <<DataValue("Boolean"), GroupStart, Field, Tag, PrefixOperator("Boost"),
      PrefixOperator("Fuzz"), PrefixOperator("Not")>>

\* the successors of InfixOperator(_)
InfixSuccessors ==
    <<GroupStart, Field, Tag, PrefixOperator("Boost"), PrefixOperator("Fuzz"),
      PrefixOperator("Not")>>

next_states(st) ==
    CASE st.s = "Start" ->
            <<GroupStart, Field, Tag, PrefixOperator("Boost"), PrefixOperator("Fuzz"),
              PrefixOperator("Not"), EndOfInput>>
      [] st.s = "GroupStart" ->
            <<GroupStart, Field, Tag, PrefixOperator("Boost"), PrefixOperator("Fuzz"),
              PrefixOperator("Not"), GroupEnd>>
      [] st.s = "GroupEnd" ->
            <<InfixOperator("And"), InfixOperator("Or"), GroupEnd, EndOfInput>>
      [] st.s = "InfixOperator" -> InfixSuccessors
      [] st.s = "Comparator" /\ st.v \in {"Equal", "NotEqual"} ->
            <<DataValue("AbsoluteDate"), DataValue("Boolean"), DataValue("CIDR"),
              DataValue("Float"), DataValue("IP"), DataValue("Integer"),
              DataValue("RelativeDate"), DataValue("String")>>
      [] st.s = "Comparator" /\ st.v \in {"GreaterThan", "GreaterThanOrEqual",
                                         "LessThan", "LessThanOrEqual"} ->
            <<DataValue("Float"), DataValue("Integer"), DataValue("RelativeDate"),
              DataValue("AbsoluteDate")>>
      [] st.s = "Comparator" /\ st.v = "Contains" ->
            <<DataValue("String"), DataValue("CIDR"), DataValue("IP")>>
      [] st.s = "PrefixOperator" /\ st.v = "Not" ->
            <<GroupStart, Tag, Field, DataValue("CIDR"), DataValue("Boolean")>>
      [] st.s = "PrefixOperator" /\ st.v \in {"Boost", "Fuzz"} ->
            <<GroupStart, Tag, Field>>
      [] st.s = "DataValue" ->
            <<GroupEnd, InfixOperator("And"), InfixOperator("Or"), EndOfInput>>
      [] st.s = "Field" ->
            <<Comparator("Equal"), Comparator("NotEqual"), Comparator("LessThan"),
              Comparator("LessThanOrEqual"), Comparator("GreaterThan"),
              Comparator("GreaterThanOrEqual")>>
      [] st.s = "Tag" ->
            <<InfixOperator("And"), InfixOperator("Or"), GroupEnd, EndOfInput>>
      [] st.s = "EndOfInput" -> <<EndOfInput>>

\* StateMachine::maximum_bound, NONE for an unbounded match; step never calls it
maximum_bound(st) ==
    CASE st.s = "Start"          -> 0
      [] st.s = "GroupStart"     -> 1
      [] st.s = "GroupEnd"       -> 1
      [] st.s = "InfixOperator"  -> IF st.v = "And" THEN 3 ELSE 2
      [] st.s = "Comparator"     -> IF st.v = "LessThan" THEN 2
                                    ELSE IF st.v \in {"GreaterThan", "Equal"} THEN 3 ELSE 4
      [] st.s = "PrefixOperator" -> IF st.v = "Not" THEN 3 ELSE 1
      [] st.s = "DataValue"      -> IF st.v = "Boolean" THEN 3
                                    ELSE IF st.v = "IP" THEN 39
                                    ELSE IF st.v = "CIDR" THEN 43
                                    ELSE NONE
      [] st.s = "Field"          -> 65
      [] st.s = "Tag"            -> 255
      [] st.s = "EndOfInput"     -> NONE

\* the Field arm of StateMachine::matches
AtLeastTwo(o) == IF o < 2 THEN NONE ELSE as_u8(o)

Field_matches(s) == AtLeastTwo(FieldLexem_find_end(s))

\* the Tag arm of StateMachine::matches
Tag_matches(s) == AtLeastTwo(TagLexem_find_end(s))

\* StateMachine::matches
matches(st, s) ==
    CASE st.s = "Start"          -> NONE
      [] st.s = "GroupStart"     -> IF starts_with(s, <<"(">>) THEN 1 ELSE NONE
      [] st.s = "GroupEnd"       -> IF starts_with(s, <<")">>) THEN 1 ELSE NONE
      [] st.s = "InfixOperator"  -> InfixOperator_matches(st.v, s)
      [] st.s = "Comparator"     -> Comparator_matches(st.v, s)
      [] st.s = "PrefixOperator" -> PrefixOperator_matches(st.v, s)
      [] st.s = "DataValue"      -> DataValueType_matches(st.v, s)
      [] st.s = "Field"          -> Field_matches(s)
      [] st.s = "Tag"            -> Tag_matches(s)
      [] st.s = "EndOfInput"     -> IF s = <<>> THEN 0 ELSE NONE

-----------------------------------------------------------------------------
(* The driver, tokenizers/fsm/mod.rs *)

\* TokenSpan::new
TokenSpan(token, start, end) == [token |-> token, start |-> start, end |-> end]

\* TokenSpan::str
TokenSpan_str(text, span) == Slice(text, span.start, span.end)

\* TokenSpan::trim_end_whitespace
trim_end_whitespace(text, span) ==
    [span EXCEPT !.end = trim_end_len(TokenSpan_str(text, span)) + span.start]

\* what next.matches(rest) returns for each successor of st, in table order
Lengths(st, rest) ==
    [i \in 1..Len(next_states(st)) |-> matches(next_states(st)[i], rest)]

\* the first successor in table order whose matcher accepts (0 when none does):
\* the `for next in self.state.next_states()` loop with its `if let Some(chars)`
FirstMatch(lens) ==
    IF \A i \in 1..Len(lens) : lens[i] = NONE THEN 0
    ELSE CHOOSE i \in 1..Len(lens) : lens[i] # NONE /\ \A j \in 1..(i - 1) : lens[j] = NONE

\* Advance leaving the cursor where it was
Advance_stay(text, pos, chars) == pos

\* Advance going one byte too far
Advance_over(text, pos, chars) ==
    pos + chars + leading_whitespace(SliceFrom(text, pos + chars)) + 1

\* the cursor after a match of chars bytes: past the token, then past the whitespace
Advance(text, pos, chars) ==
    pos + chars + leading_whitespace(SliceFrom(text, pos + chars))

\* Emit with every span starting at the start of the input
Emit_from0(text, pos, next, chars) ==
    [some     |-> TRUE,
     span     |-> trim_end_whitespace(text, TokenSpan(to_token(next), 0, pos + chars)),
     position |-> Advance(text, pos, chars),
     state    |-> next]

\* Emit with the length of the match taken for the end of its span
Emit_len(text, pos, next, chars) ==
    [some     |-> TRUE,
     span     |-> trim_end_whitespace(text, TokenSpan(to_token(next), pos, chars)),
     position |-> Advance(text, pos, chars),
     state    |-> next]

\* the body of the `if let Some(chars)` of Tokenizer::step: the span pushed,
\* the cursor and the state after it
Emit(text, pos, next, chars) ==
    [some     |-> TRUE,
     span     |-> trim_end_whitespace(text, TokenSpan(to_token(next), pos, pos + chars)),
     position |-> Advance(text, pos, chars),
     state    |-> next]

\* Tokenizer::step once the matchers have run
step_first(text, pos, st, lens) ==
    IF FirstMatch(lens) = 0 THEN [some |-> FALSE]
    ELSE Emit(text, pos, next_states(st)[FirstMatch(lens)], lens[FirstMatch(lens)])

\* Tokenizer::step without the early return in EndOfInput
step_again(text, pos, st) ==
    step_first(text, pos, st, Lengths(st, SliceFrom(text, pos)))

\* Tokenizer::step: [some |-> FALSE], or the span and the tokenizer after it
step(text, pos, st) ==
    IF st = EndOfInput THEN [some |-> FALSE]
    ELSE step_first(text, pos, st, Lengths(st, SliceFrom(text, pos)))

-----------------------------------------------------------------------------
(* The expression tree and its values, ast.rs *)

ETag(name) == [k |-> "Tag", name |-> name]
EApply(op, e) == [k |-> "Apply", op |-> op, child |-> e]
EComparison(f, c, v) == [k |-> "Comparison", field |-> f, comp |-> c, value |-> v]
ECombine(op, es) == [k |-> "Combine", op |-> op, children |-> es]
EGroup(es) == [k |-> "Group", children |-> es]
EEmpty == [k |-> "Empty"]
EField(name) == [k |-> "Field", name |-> name]

\* Value::Undefined
Undefined == [v |-> "Undefined"]

\* a decimal numeral without its leading zeros: the magnitude it denotes
RECURSIVE StripZeros(_)
StripZeros(ds) == IF ds # <<>> /\ Head(ds) = "0" THEN StripZeros(Tail(ds)) ELSE ds

\* a fraction without its trailing zeros
RECURSIVE StripTrailingZeros(_)
StripTrailingZeros(ds) ==
    IF ds # <<>> /\ ds[Len(ds)] = "0"
    THEN StripTrailingZeros(SubSeq(ds, 1, Len(ds) - 1)) ELSE ds

DigitSeq == <<"0", "1", "2", "3", "4", "5", "6", "7", "8", "9">>
DigitVal(c) == (CHOOSE i \in 1..Len(DigitSeq) : DigitSeq[i] = c) - 1

\* i128::MAX, 2^127 - 1, as a numeral; the magnitude of i128::MIN is one more
I128Max == <<"1","7","0","1","4","1","1","8","3","4","6","0","4","6","9","2","3","1","7",
             "3","1","6","8","7","3","0","3","7","1","5","8","8","4","1","0","5","7","2","7">>

\* a > b, for numerals of equal length without leading zeros
NumeralGreater(a, b) ==
    \E i \in 1..Len(a) :
        /\ DigitVal(a[i]) > DigitVal(b[i])
        /\ \A j \in 1..(i - 1) : a[j] = b[j]

\* whether the magnitude mag, negated or not, lies outside i128
I128Overflow(neg, mag) ==
    \/ Len(mag) > Len(I128Max)
    \/ /\ Len(mag) = Len(I128Max)
       /\ NumeralGreater(mag, I128Max)
       /\ ~(neg /\ SubSeq(mag, 1, Len(mag) - 1) = SubSeq(I128Max, 1, Len(mag) - 1)
                /\ mag[Len(mag)] = "8")

\* str::parse::<i128>: an optional sign, then digits, nothing else
ParseI128(text) ==
    LET sign == IF nth(text, 0) \in {"+", "-"} THEN 1 ELSE 0
        ds   == SliceFrom(text, sign)
        mag  == StripZeros(ds)
        neg  == nth(text, 0) = "-" /\ mag # <<>>
    IN  IF ds = <<>> \/ (\E i \in 1..Len(ds) : ds[i] \notin Digit) \/ I128Overflow(neg, mag)
        THEN [ok |-> FALSE]
        ELSE [ok |-> TRUE, value |-> [v |-> "Integer", neg |-> neg, mag |-> mag]]

\* str::parse::<f64> on a decimal without exponent: the number it denotes, exact
\* for the numerals of up to 15 significant digits the inputs hold
ParseF64(text) ==
    LET sign == IF nth(text, 0) \in {"+", "-"} THEN 1 ELSE 0
        int  == DigitRun(text, sign)
        dot  == nth(text, sign + int) = "."
        frac == IF dot THEN DigitRun(text, sign + int + 1) ELSE 0
        end  == sign + int + (IF dot THEN 1 + frac ELSE 0)
        im   == StripZeros(Slice(text, sign, sign + int))
        fm   == StripTrailingZeros(Slice(text, sign + int + 1, sign + int + 1 + frac))
    IN  IF end # Len(text) \/ int + frac = 0
        THEN [ok |-> FALSE]
        ELSE [ok |-> TRUE,
              value |-> [v |-> "Float", neg |-> nth(text, 0) = "-",
                         int |-> im, frac |-> fm]]

\* f64 equality makes -0.0 equal 0.0; the sign of a zero is dropped to keep
\* record equality the equality of the values
FloatValue(r) ==
    IF r.ok /\ r.value.int = <<>> /\ r.value.frac = <<>>
    THEN [r EXCEPT !.value.neg = FALSE] ELSE r

\* impl From<TokenSpan> for Value: the value, or the panic the conversion ends in
Value_from(text, span) ==
    LET str == TokenSpan_str(text, span)
    IN  CASE span.token = "FLOAT" ->
                IF FloatValue(ParseF64(str)).ok
                THEN [panic |-> "", value |-> FloatValue(ParseF64(str)).value]
                ELSE [panic |-> "unwrap: ParseFloatError"]
          [] span.token = "INTEGER" ->
                IF ParseI128(str).ok
                THEN [panic |-> "", value |-> ParseI128(str).value]
                ELSE [panic |-> "unwrap: ParseIntError"]
          [] span.token = "BOOLEAN" ->
                IF str \in {<<"t","r","u","e">>, <<"y","e","s">>}
                THEN [panic |-> "", value |-> [v |-> "Bool", b |-> TRUE]]
                ELSE IF str \in {<<"f","a","l","s","e">>, <<"n","o">>}
                THEN [panic |-> "", value |-> [v |-> "Bool", b |-> FALSE]]
                ELSE [panic |-> "unreachable: boolean"]
          [] span.token \in {"IP_CIDR", "ABSOLUTE_DATE", "RELATIVE_DATE"} ->
                [panic |-> "todo"]
          [] OTHER -> [panic |-> "unreachable: lexer"]

-----------------------------------------------------------------------------
(* The shift-reduce parser, parsers/shift_reduce/mod.rs *)

\* TokenOrExpr
TToken(span) == [t |-> "Token", span |-> span]
TExpr(e) == [t |-> "Expr", e |-> e]

IsToken(x, tokens) == x.t = "Token" /\ x.span.token \in tokens
IsExpr(x) == x.t = "Expr"

\* str_to_comp: the comparator, or "" where the match ends in unreachable!()
str_to_comp(a) ==
    CASE a = <<"l","t",":">>     -> "LessThan"
      [] a = <<"l","t","e",":">> -> "LessThanOrEqual"
      [] a = <<"e","q",":">>     -> "Equal"
      [] a = <<"n","e","q",":">> -> "NotEqual"
      [] a = <<"g","t",":">>     -> "GreaterThan"
      [] a = <<"g","t","e",":">> -> "GreaterThanOrEqual"
      [] OTHER                   -> ""

ValueTokens == {"INTEGER", "FLOAT", "BOOLEAN", "IP_CIDR", "ABSOLUTE_DATE", "RELATIVE_DATE"}

\* what one call leaves: whether it returned Some, the stack, and the panic if it ended in one
Reduced(some, stk) == [some |-> some, stack |-> stk, panic |-> ""]
Panicked(msg, stk) == [some |-> FALSE, stack |-> stk, panic |-> msg]

\* Replace without the truncation of the stack
Replace_push(stk, restLen, e) == Append(stk, TExpr(e))

\* self.stack.truncate(rest.len()); self.stack.push(TokenOrExpr::Expr(result))
Replace(stk, restLen, e) == Append(SubSeq(stk, 1, restLen), TExpr(e))

\* ShiftReduce::expr_stack
expr_stack(stk) ==
    LET kept == SelectSeq(stk, LAMBDA x : ~IsToken(x, {"EOI"}))
    IN  [i \in 1..Len(kept) |-> kept[i].e]

\* ComparisonRule with the dot cut off the field name it stores
ComparisonRule_trim(text, stk) ==
    LET n == Len(stk)
        f == stk[n - 2].span
        c == stk[n - 1].span
        v == stk[n].span
        comp == str_to_comp(TokenSpan_str(text, c))
        val  == Value_from(text, v)
    IN  IF comp = "" THEN Panicked("unreachable: str_to_comp", stk)
        ELSE IF val.panic # "" THEN Panicked(val.panic, stk)
        ELSE Reduced(TRUE, Replace(stk, n - 3,
                        EComparison(Slice(text, f.start, f.end - 1), comp, val.value)))

\* the comparison the FIELD RANGE VALUE rule builds, its arguments evaluated in order
ComparisonRule(text, stk) ==
    LET n == Len(stk)
        f == stk[n - 2].span
        c == stk[n - 1].span
        v == stk[n].span
        comp == str_to_comp(TokenSpan_str(text, c))
        val  == Value_from(text, v)
    IN  IF comp = "" THEN Panicked("unreachable: str_to_comp", stk)
        ELSE IF val.panic # "" THEN Panicked(val.panic, stk)
        ELSE Reduced(TRUE, Replace(stk, n - 3,
                        EComparison(TokenSpan_str(text, f), comp, val.value)))

\* CombineRule without the arms guarded by `*a == *b`
CombineRule_noguard(stk, op) ==
    LET n == Len(stk)
    IN  Reduced(TRUE, Replace(stk, n - 3, ECombine(op, <<stk[n - 2].e, stk[n].e>>)))

\* CombineRule with the operands pushed in the order they are popped
CombineRule_swapped(stk, op) ==
    LET n == Len(stk)
    IN  IF stk[n - 2].e = stk[n].e
        THEN Reduced(TRUE, Replace(stk, n - 3, stk[n].e))
        ELSE Reduced(TRUE, Replace(stk, n - 3, ECombine(op, <<stk[n].e, stk[n - 2].e>>)))

\* the rule for `Expr op Expr` at the top of the stack, op being AND or OR
CombineRule(stk, op) ==
    LET n == Len(stk)
        a == stk[n - 2].e
        b == stk[n].e
    IN  IF a = b
        THEN Reduced(TRUE, Replace(stk, n - 3, a))
        ELSE Reduced(TRUE, Replace(stk, n - 3, ECombine(op, <<a, b>>)))

\* the rule for a stack that is LPAREN, anything, RPAREN: rest is the whole stack,
\* so nothing is truncated and the group is pushed on top
GroupRule(stk) ==
    LET n == SubSeq(stk, 2, Len(stk) - 1)
    IN  IF \E i \in 1..Len(n) : ~IsExpr(n[i])
        THEN Panicked("unreachable: token in asserted expr", stk)
        ELSE Reduced(TRUE, Replace(stk, Len(stk), EGroup([i \in 1..Len(n) |-> n[i].e])))

\* the rule for EOI at the top of the stack; it returns None either way
EoiRule(stk) ==
    IF Len(stk) = 2
    THEN Reduced(FALSE, <<stk[1]>>)
    ELSE IF \E i \in 1..Len(stk) : ~IsExpr(stk[i]) /\ ~IsToken(stk[i], {"EOI"})
    THEN Panicked("unreachable: token in asserted expr", stk)
    ELSE Reduced(FALSE, <<TExpr(EGroup(expr_stack(stk)))>>)

\* NotRule with the NOT token left on the stack
NotRule_keep(stk) ==
    Reduced(TRUE, Replace(stk, Len(stk) - 1, EApply("Not", stk[Len(stk)].e)))

\* the rule for NOT, Expr at the top of the stack
NotRule(stk) ==
    Reduced(TRUE, Replace(stk, Len(stk) - 2, EApply("Not", stk[Len(stk)].e)))

\* ShiftReduce::reduce: the first arm of the match whose pattern fits the stack
reduce(text, stk) ==
    LET n == Len(stk)
    IN  IF n >= 2 /\ IsToken(stk[n - 1], {"LPAREN"}) /\ IsToken(stk[n], {"RPAREN"})
            THEN Reduced(TRUE, Replace(stk, n - 2, EEmpty))
        ELSE IF n >= 3 /\ IsToken(stk[n - 2], {"LPAREN"}) /\ IsExpr(stk[n - 1])
                       /\ IsToken(stk[n], {"RPAREN"})
            THEN Reduced(TRUE, Replace(stk, n - 3, stk[n - 1].e))
        ELSE IF n >= 2 /\ IsToken(stk[1], {"LPAREN"}) /\ IsToken(stk[n], {"RPAREN"})
            THEN GroupRule(stk)
        ELSE IF n >= 3 /\ IsExpr(stk[n - 2]) /\ IsToken(stk[n - 1], {"AND"}) /\ IsExpr(stk[n])
            THEN CombineRule(stk, "And")
        ELSE IF n >= 3 /\ IsExpr(stk[n - 2]) /\ IsToken(stk[n - 1], {"OR"}) /\ IsExpr(stk[n])
            THEN CombineRule(stk, "Or")
        ELSE IF n >= 2 /\ IsToken(stk[n - 1], {"NOT"}) /\ IsExpr(stk[n])
            THEN NotRule(stk)
        ELSE IF n >= 3 /\ IsToken(stk[n - 2], {"FIELD"}) /\ IsToken(stk[n - 1], {"RANGE"})
                       /\ IsToken(stk[n], ValueTokens)
            THEN ComparisonRule(text, stk)
        ELSE IF n >= 1 /\ IsToken(stk[n], {"EOI"})
            THEN EoiRule(stk)
        ELSE Reduced(FALSE, stk)

\* ShiftReduce::next_input: the position after the call and the token there, if any
next_input(input, pos) ==
    IF pos + 2 <= Len(input)
    THEN [some |-> TRUE, position |-> pos + 1, token |-> input[pos + 2]]
    ELSE [some |-> FALSE, position |-> pos + 1]

\* ShiftReduce::shift: whether it returned Some, and the parser after the call
shift(text, input, pos, la, stk) ==
    IF la.token = "EOI"
    THEN [some |-> FALSE, position |-> pos, look_ahead |-> la, stack |-> stk]
    ELSE LET expr == IF la.token = "TAG"
                     THEN TExpr(ETag(TokenSpan_str(text, la)))
                     ELSE TToken(la)
             nxt  == next_input(input, pos)
         IN  [some       |-> nxt.some,
              position   |-> nxt.position,
              look_ahead |-> IF nxt.some THEN nxt.token ELSE la,
              stack      |-> Append(stk, expr)]

-----------------------------------------------------------------------------
(* The recursive-descent parser, parsers/recdec/mod.rs.  One turn of the loop *)
(* of generate_primitive_ast is an operator of the scratch space and of       *)
(* `current`; it tells how the turn ended: "go" (next token), "ok" (return    *)
(* Ok), "err" (return Err) or "panic".                                        *)

RdGo(scratch, cur) == [outcome |-> "go", msg |-> "", scratch |-> scratch, current |-> cur]
RdOk(scratch, cur) == [outcome |-> "ok", msg |-> "", scratch |-> scratch, current |-> cur]
RdErr(msg, scratch, cur) == [outcome |-> "err", msg |-> msg, scratch |-> scratch, current |-> cur]
RdPanic(msg, scratch, cur) == [outcome |-> "panic", msg |-> msg, scratch |-> scratch, current |-> cur]

\* the arms every match on an Expr ends with: todo!() for the kinds without a
\* rule, unreachable!() for Empty
RdNoRule(scratch, cur, e) ==
    RdPanic(IF e.k = "Empty" THEN "unreachable" ELSE "todo", scratch, cur)

\* v.push(e) on the children of a Combine or a Group
Push(container, e) == [container EXCEPT !.children = Append(@, e)]
Front(seq) == SubSeq(seq, 1, Len(seq) - 1)
Last(seq) == seq[Len(seq)]

\* the arm of LPAREN and ROOT
rd_open(scratch, cur) == RdGo(Append(scratch, cur), EGroup(<<>>))

\* what the RPAREN arm pushes into `up`: the only child of a Group, nothing
\* for an empty Group, `current` itself otherwise
Closed(up, cur) ==
    IF cur.k = "Group" /\ Len(cur.children) = 1 THEN Push(up, cur.children[1])
    ELSE IF cur.k = "Group" /\ cur.children = <<>> THEN up
    ELSE Push(up, cur)

\* the arm of RPAREN
rd_close(scratch, cur) ==
    IF scratch = <<>> THEN RdPanic("invalid group close", scratch, cur)
    ELSE IF Last(scratch).k \in {"Combine", "Group"}
    THEN RdGo(Front(scratch), Closed(Last(scratch), cur))
    ELSE RdNoRule(Front(scratch), cur, Last(scratch))

\* the arms of AND and OR.  On a Combine of the other operator, AND wraps it
\* (the push and the pop of the scratch space cancel), OR takes its last
\* child and leaves the rest on the scratch space.
rd_infix(scratch, cur, op) ==
    IF cur.k = "Combine" THEN
        IF cur.op = op THEN RdGo(scratch, cur)
        ELSE IF op = "And" THEN RdGo(scratch, ECombine("And", <<cur>>))
        ELSE IF cur.children = <<>> THEN RdPanic("unwrap on None", scratch, cur)
        ELSE RdGo(Append(scratch, [cur EXCEPT !.children = Front(@)]),
                  ECombine("Or", <<Last(cur.children)>>))
    ELSE IF cur.k = "Group" THEN
        RdGo(scratch, ECombine(op, IF Len(cur.children) = 1 THEN <<cur.children[1]>>
                                   ELSE <<cur>>))
    ELSE RdNoRule(scratch, cur, cur)

\* the arm of INTEGER: `token.str().parse()?`, then the finished comparison
\* goes into the frame popped off the scratch space
rd_integer(str, scratch, cur) ==
    IF cur.k = "Comparison" THEN
        IF ~ParseI128(str).ok THEN RdErr("ParseIntError", scratch, cur)
        ELSE IF scratch = <<>> THEN RdPanic("unwrap on None", scratch, cur)
        ELSE IF Last(scratch).k \in {"Combine", "Group"}
        THEN RdGo(Front(scratch),
                  Push(Last(scratch), [cur EXCEPT !.value = ParseI128(str).value]))
        ELSE RdNoRule(Front(scratch), Last(scratch), Last(scratch))
    ELSE RdNoRule(scratch, cur, cur)

\* the arms of TAG and FIELD: e is Tag(str) or Field(str)
rd_leaf(scratch, cur, e) ==
    IF cur.k \in {"Combine", "Group"} THEN RdGo(scratch, Push(cur, e))
    ELSE RdNoRule(scratch, cur, cur)

\* the two matches on token.str() of the RANGE arm; "" where they end in
\* unreachable!()
rd_comp(str, withLt) ==
    IF str \in {<<".","g","t","e">>, <<"g","t","e",":">>} THEN "GreaterThanOrEqual"
    ELSE IF withLt /\ str \in {<<".","l","t">>, <<"l","t",":">>} THEN "LessThan"
    ELSE ""

\* rd_range with the Field left among the children of the Combine
rd_range_keep(str, scratch, cur) ==
    IF cur.k = "Combine" /\ cur.children # <<>> /\ rd_comp(str, TRUE) # ""
    THEN RdGo(Append(scratch, cur),
              EComparison(Last(cur.children).name, rd_comp(str, TRUE), Undefined))
    ELSE RdNoRule(scratch, cur, cur)

\* the arm of RANGE
rd_range(str, scratch, cur) ==
    IF cur.k = "Field" THEN
        IF rd_comp(str, FALSE) = "" THEN RdPanic("unreachable", scratch, cur)
        ELSE RdGo(scratch, EComparison(cur.name, rd_comp(str, FALSE), Undefined))
    ELSE IF cur.k = "Combine" THEN
        IF cur.children = <<>> THEN RdPanic("unwrap on None", scratch, cur)
        ELSE IF Last(cur.children).k \notin {"Field", "Tag"}
        THEN RdNoRule(scratch, cur, Last(cur.children))
        ELSE IF rd_comp(str, TRUE) = ""
        THEN RdPanic("unreachable", Append(scratch, [cur EXCEPT !.children = Front(@)]), cur)
        ELSE RdGo(Append(scratch, [cur EXCEPT !.children = Front(@)]),
                  EComparison(Last(cur.children).name, rd_comp(str, TRUE), Undefined))
    ELSE RdNoRule(scratch, cur, cur)

\* `while let Some(mut scratch) = scratch_space.pop()`: current goes into each
\* frame in turn
RECURSIVE rd_unwind(_, _)
rd_unwind(scratch, cur) ==
    IF scratch = <<>> THEN RdOk(scratch, cur)
    ELSE IF Last(scratch).k \in {"Combine", "Group"}
    THEN rd_unwind(Front(scratch), Push(Last(scratch), cur))
    ELSE RdNoRule(Front(scratch), cur, Last(scratch))

\* `while dirty`: a Group with one child gives way to the child
RECURSIVE fold_top(_)
fold_top(cur) ==
    IF cur.k = "Group" /\ Len(cur.children) = 1 THEN fold_top(cur.children[1]) ELSE cur

\* the fold of the EOI arm once the frames are merged
rd_folded(r) == IF r.outcome = "ok" THEN RdOk(r.scratch, fold_top(r.current)) ELSE r

\* the arm of EOI: the merge and the fold are under `if !eoi_fold`
rd_eoi(scratch, cur, fold) ==
    IF ~fold THEN rd_folded(rd_unwind(scratch, cur)) ELSE RdOk(scratch, cur)

\* one turn of `for (_i, token) in result.iter().enumerate()`
rd_token(text, token, scratch, cur, fold) ==
    CASE token.token \in {"LPAREN", "ROOT"} -> rd_open(scratch, cur)
      [] token.token = "RPAREN"  -> rd_close(scratch, cur)
      [] token.token = "AND"     -> rd_infix(scratch, cur, "And")
      [] token.token = "OR"      -> rd_infix(scratch, cur, "Or")
      [] token.token = "INTEGER" -> rd_integer(TokenSpan_str(text, token), scratch, cur)
      [] token.token = "TAG"     -> rd_leaf(scratch, cur, ETag(TokenSpan_str(text, token)))
      [] token.token = "FIELD"   -> rd_leaf(scratch, cur, EField(TokenSpan_str(text, token)))
      [] token.token = "RANGE"   -> rd_range(TokenSpan_str(text, token), scratch, cur)
      [] token.token = "EOI"     -> rd_eoi(scratch, cur, fold)
      [] OTHER                   -> RdPanic("todo", scratch, cur)

-----------------------------------------------------------------------------
(* The inputs *)

\* the longest input built from pieces, in pieces
MaxPieces == 3

\* lexemes and fragments of lexemes the short inputs are built from
Pieces ==
    {<<"a", "a">>,
     <<"b">>,
     <<" ">>,
     <<"(">>,
     <<")">>,
     <<",">>,
     <<"|", "|">>,
     <<"-">>,
     <<"f", ".", "g", "t", "e", ":">>,
     <<"f", ".", "e", "q", ":">>,
     <<"1">>,
     <<"2", "0", "2", "0">>,
     <<"y", "e", "s">>}

\* every concatenation of at most n pieces
RECURSIVE PieceSeqs(_)
PieceSeqs(n) ==
    IF n = 0 THEN {<<>>}
    ELSE PieceSeqs(n - 1) \cup {w \o q : w \in PieceSeqs(n - 1), q \in Pieces}

\* operands and operators of the unparenthesised expressions x op1 y op2 z
Atoms ==
    {<<"a", "a">>,
     <<"b", "b">>,
     <<"c", "c">>,
     <<"-", "a", "a">>,
     <<"f", ".", "g", "t", "e", ":", "1">>}

AndSpellings == {<<",">>, <<"&", "&">>, <<" ", "A", "N", "D", " ">>}
OrSpellings == {<<"|", "|">>, <<" ", "O", "R", " ">>}
OpSpellings == AndSpellings \cup OrSpellings

ExprInputs ==
    {x \o o1 \o y \o o2 \o z : x \in Atoms, o1 \in OpSpellings, y \in Atoms,
                                o2 \in OpSpellings, z \in Atoms}

\* the input of scenario S3
S3Input ==
    <<"(", "(", "(", "f", "i", "e", "l", "d", ".", "g", "t", "e", ":", "1", "0", "0", "0", ")", "A", "N", "D", " ", "d", "a", "t", "a", ".", "n", "e", "q", ":", "2", "0", ")", "|", "|", "b", "l", "a", ".", "g", "t", "e", ":", "1", "0", "0", ".", "2", ",", "t", "a", "g", ")", ",", "t", "e", "s", "t", ".", "l", "t", "e", ":", "-", "1", "0", ",", "t", "a", "g">>

\* inputs of the spec's scenarios and of the tokenizer's tests, and literals of
\* every kind after a comparator
ScenarioInputs ==
    {<<"a", ",", "b", ",", "c">>,
     <<"f", "i", "e", "l", "d", ".", "g", "t", "e", ":", "1", "0", "0", "0">>,
     <<"a", "a", "&", "&", "a", "a">>,
     <<"-", "f", "o", "o">>,
     <<"f", ".", "G", "T", "E", ":", "1">>,
     <<"f", ".", "e", "q", ":", "T", "r", "u", "e">>,
     <<"f", ".", "e", "q", ":", "1", ".", "5", "0", ",", "f", ".", "e", "q", ":", "+", "0", "1", ".", "5">>,
     <<"f", ".", "l", "t", ":", "1", "7", "0", "1", "4", "1", "1", "8", "3", "4", "6", "0", "4", "6", "9", "2", "3", "1", "7", "3", "1", "6", "8", "7", "3", "0", "3", "7", "1", "5", "8", "8", "4", "1", "0", "5", "7", "2", "8">>,
     <<"f", ".", "g", "t", ":", "-", "1", "7", "0", "1", "4", "1", "1", "8", "3", "4", "6", "0", "4", "6", "9", "2", "3", "1", "7", "3", "1", "6", "8", "7", "3", "0", "3", "7", "1", "5", "8", "8", "4", "1", "0", "5", "7", "2", "8">>,
     <<"f", ".", "e", "q", ":", "3", " ", "d", "a", "y", "s", " ", "a", "g", "o">>,
     <<"(", "-", "N", "O", ")">>,
     <<" ", "a", "\\", ")", ")">>}

\* the inputs of scenario S2, generalised: a field name, `.gte:`, a numeral; the
\* last two numerals are i128::MAX and the number after it
FieldNames ==
    {<<"f">>,
     <<"n", "a", "m", "e">>,
     <<"f", "i", "e", "l", "d">>}

Numerals ==
    {<<"0">>,
     <<"7">>,
     <<"1", "0", "0", "0">>,
     <<"0", "0", "7">>,
     <<"1", "7", "0", "1", "4", "1", "1", "8", "3", "4", "6", "0", "4", "6", "9", "2", "3", "1", "7", "3", "1", "6", "8", "7", "3", "0", "3", "7", "1", "5", "8", "8", "4", "1", "0", "5", "7", "2", "7">>,
     <<"1", "7", "0", "1", "4", "1", "1", "8", "3", "4", "6", "0", "4", "6", "9", "2", "3", "1", "7", "3", "1", "6", "8", "7", "3", "0", "3", "7", "1", "5", "8", "8", "4", "1", "0", "5", "7", "2", "8">>}

GteInputs == {n \o <<".", "g", "t", "e", ":">> \o d : n \in FieldNames, d \in Numerals}

\* the inputs of scenario S1, generalised: the tags of a chain, joined by one
\* spelling of AND
Chains ==
    {<<<<"a">>, <<"b">>, <<"c">>>>,
     <<<<"a", "a">>, <<"b", "b">>, <<"c", "c">>>>,
     <<<<"a", "a">>, <<"b", "b">>, <<"a", "a">>>>,
     <<<<"a", "a">>, <<"b", "b">>, <<"c", "c">>, <<"d", "d">>>>}

RECURSIVE Join(_, _)
Join(tags, sep) ==
    IF Len(tags) = 1 THEN tags[1] ELSE tags[1] \o sep \o Join(Tail(tags), sep)

ChainInputs == {Join(t, sep) : t \in Chains, sep \in AndSpellings}

\* a negation in front of an operand, of the first operand of a pair, and of a
\* parenthesised pair
NotSpellings == {<<"-">>, <<"!">>, <<"N", "O", "T", " ">>}
PlainAtoms == {<<"a", "a">>, <<"b", "b">>, <<"f", ".", "g", "t", "e", ":", "1">>}

NotInputs ==
    {<<"-", "f", "o", "o">>}
        \cup {p \o x : p \in NotSpellings, x \in PlainAtoms}
        \cup {p \o x \o o \o y :
                 p \in NotSpellings, x \in PlainAtoms, o \in OpSpellings, y \in PlainAtoms}
        \cup {p \o <<"(">> \o x \o o \o y \o <<")">> :
                 p \in NotSpellings, x \in PlainAtoms, o \in OpSpellings, y \in PlainAtoms}

\* nothing, an operand or a pair of operands inside 1..MaxDepth pairs of
\* parentheses
MaxDepth == 3
ParenCores == Atoms \cup {<<>>, <<"a", "a", ",", "b", "b">>, <<"a", "a", "|", "|", "b", "b">>}
Wrapped(c, k) == [i \in 1..k |-> "("] \o c \o [i \in 1..k |-> ")"]
ParenInputs == {Wrapped(c, k) : c \in ParenCores, k \in 1..MaxDepth}

\* the six comparators of a FIELD in lower case, and a date, a float and an
\* integer after each of them
LowerComparators ==
    {<<"l", "t", ":">>, <<"l", "t", "e", ":">>, <<"e", "q", ":">>, <<"n", "e", "q", ":">>, <<"g", "t", ":">>, <<"g", "t", "e", ":">>}
DigitLiterals == {<<"2", "0", "2", "0", "-", "0", "1", "-", "0", "1">>, <<"1", ".", "5">>, <<"1", "5">>}
LiteralInputs == {<<"f", ".">> \o c \o l : c \in LowerComparators, l \in DigitLiterals}

\* every spelling of the six comparators in upper and lower case letters,
\* between `f.` and `1`
CaseLetters == {"e", "g", "l", "n", "q", "t", "E", "G", "L", "N", "Q", "T", ":"}
CaseVariants(w) == {v \in [1..Len(w) -> CaseLetters] : to_ascii_lowercase(v) = w}
CaseInputs ==
    {<<"f", ".">> \o v \o <<"1">> : v \in UNION {CaseVariants(w) : w \in LowerComparators}}

\* true, false, yes, no in three letter cases: alone, after NOT, after an
\* infix operator, in parentheses, and after eq: and gte:
BoolWords ==
    {<<"t", "r", "u", "e">>, <<"T", "r", "u", "e">>, <<"T", "R", "U", "E">>,
     <<"f", "a", "l", "s", "e">>, <<"F", "a", "l", "s", "e">>, <<"F", "A", "L", "S", "E">>,
     <<"y", "e", "s">>, <<"Y", "e", "s">>, <<"Y", "E", "S">>,
     <<"n", "o">>, <<"N", "o">>, <<"N", "O">>}
BoolContexts ==
    {<<>>, <<"-">>, <<"!">>, <<"N", "O", "T", " ">>, <<"a", "a", ",">>,
     <<"a", "a", " ", "O", "R", " ">>, <<"f", ".", "e", "q", ":">>, <<"f", ".", "g", "t", "e", ":">>}
BoolInputs ==
    {c \o w : c \in BoolContexts, w \in BoolWords}
        \cup {<<"(">> \o w \o <<")">> : w \in BoolWords}

\* identifiers that hold the letters of a keyword away from a word boundary,
\* or end in an upper case A, N or O
EmbeddedWords ==
    {<<"L", "A", "N", "D", "S", "C", "A", "P", "E">>,
     <<"B", "A", "N", "D">>,
     <<"S", "A", "N", "D", "Y">>,
     <<"a", "a", "O", "R", "b", "b">>,
     <<"a", "a", "N", "O", "T", "b", "b">>,
     <<"a", "a", "A", "N", "D", "b", "b">>,
     <<"a", "a", "A">>,
     <<"a", "a", "N">>,
     <<"a", "a", "O">>,
     <<"s", "a", "n", "d">>}

\* tags, AND and OR, parentheses and integer comparisons after an operator,
\* where the recdec parser has a rule for RANGE; two integers are beyond i128
RecdecInputs ==
    {<<"a", "a", ",", "f", ".", "g", "t", "e", ":", "1", "7", "0", "1", "4", "1", "1", "8", "3", "4", "6", "0", "4", "6", "9", "2", "3", "1", "7", "3", "1", "6", "8", "7", "3", "0", "3", "7", "1", "5", "8", "8", "4", "1", "0", "5", "7", "2", "8">>,
     <<"a", "a", ",", "f", ".", "l", "t", ":", "-", "1", "7", "0", "1", "4", "1", "1", "8", "3", "4", "6", "0", "4", "6", "9", "2", "3", "1", "7", "3", "1", "6", "8", "7", "3", "0", "3", "7", "1", "5", "8", "8", "4", "1", "0", "5", "7", "2", "8", "9">>,
     <<"a", "a", ",", "f", ".", "l", "t", ":", "5">>,
     <<"a", "a", "|", "|", "f", ".", "l", "t", ":", "-", "3">>,
     <<"a", "a", ",", "f", ".", "g", "t", "e", ":", "1", ",", "b", "b", "|", "|", "c", "c">>,
     <<"(", "a", "a", ",", "f", ".", "g", "t", "e", ":", "1", ")">>,
     <<"a", "a", ",", "(", "b", "b", "|", "|", "f", ".", "l", "t", ":", "2", ")">>,
     <<"a", "a", ",", "f", ".", "e", "q", ":", "1">>,
     <<"a", "a", ",", "f", ".", "g", "t", "e", ":", "1", ",", "f", ".", "l", "t", ":", "9">>,
     <<"(", "a", "a", ",", "b", "b", ")", "|", "|", "c", "c">>,
     <<"(", "(", "a", "a", ",", "b", "b", ")", ")">>,
     <<"a", "a", ",", "(", ")">>,
     <<"a", "a", ",", "f", ".", "g", "t", "e", ":", "+", "7">>}

\* a field of 65 bytes and one of 66 bytes, the dot included, before `gte:1`
LongFieldInputs ==
    {[i \in 1..(maximum_bound(Field) + d - 1) |-> "x"] \o <<".", "g", "t", "e", ":", "1">> : d \in {0, 1}}

\* an integer with as many digits as the matchers' return type has values, and
\* one with a digit more
LongIntegerInputs ==
    {<<"f", ".", "g", "t", "e", ":">> \o [i \in 1..(U8 + d) |-> "1"] : d \in {0, 1}}

\* a has-comparison, and addresses and quoted strings as values
AddressInputs ==
    {<<"f", ".", "h", "a", "s", ":", "a", "a">>,
     <<"f", ".", "e", "q", ":", "1", ".", "2", ".", "3", ".", "4">>,
     <<"f", ".", "e", "q", ":", "\"", "a", "a", "\"">>,
     <<"f", ".", "n", "e", "q", ":", ":", ":", "1">>,
     <<"-", "1", "0", ".", "0", ".", "0", ".", "0", "/", "8">>,
     <<"f", ".", "e", "q", ":", "f", "e", "8", "0", ":", ":", "1">>,
     <<"f", ".", "H", "A", "S", ":", "a", "a">>}

\* up to MaxEscapePieces pieces with backslashes, terminators and keywords in them
MaxEscapePieces == 3

EscapePieces ==
    {<<"a", "a">>,
     <<" ">>,
     <<"\\">>,
     <<"(">>,
     <<")">>,
     <<"~">>,
     <<"-">>,
     <<"N">>,
     <<"N", "O", "T">>,
     <<"|", "|">>}

RECURSIVE EscapeSeqs(_)
EscapeSeqs(n) ==
    IF n = 0 THEN {<<>>}
    ELSE EscapeSeqs(n - 1) \cup {w \o q : w \in EscapeSeqs(n - 1), q \in EscapePieces}

\* the inputs of test_name_termination, and escapes of each kind of terminator
EscapeInputs ==
    EscapeSeqs(MaxEscapePieces)
        \cup {<<"r", "o", "s", "e", " ", "(", "f", "l", "o", "w", "e", "r", ")">>,
              <<"r", "o", "s", "e", " ", "\\", "(", "f", "l", "o", "w", "e", "r", "\\", ")">>,
              <<"r", "o", "s", "e", ")">>,
              <<"a", "a", "\\", ",", "b", "\\", "*", "c", "\\", "?", "d", "\\", "\"", "e", "\\", "^", "f">>,
              <<"a", "a", "\\", "A", "N", "D", " ", "b", "\\", "O", "R", " ", "c", "\\", "&", "&", " ", "d">>,
              <<"\\", "!", "a", "a">>,
              <<"a", "a", "\\", "N", "(", "b", "b", ")">>}

Inputs ==
    PieceSeqs(MaxPieces) \cup ExprInputs \cup ScenarioInputs \cup {S3Input}
        \cup GteInputs \cup ChainInputs \cup NotInputs \cup ParenInputs
        \cup LiteralInputs \cup CaseInputs \cup BoolInputs \cup LongFieldInputs
        \cup EmbeddedWords \cup RecdecInputs \cup EscapeInputs \cup LongIntegerInputs
        \cup AddressInputs

-----------------------------------------------------------------------------
(* indexer/quickmap.rs: QuickMap<U>, a map from tags to ids of at most U bits *)

\* the const generic U of QuickMap<U>
U == 1

\* the tags the calls are made with
Tags == {"a", "b"}

\* enum Entry
Allocated(id) == [e |-> "Allocated", id |-> id]
Tombstone(id) == [e |-> "Tombstone", id |-> id]
Deallocated == [e |-> "Deallocated"]

\* what self.store.get(tag) finds for a tag the store does not hold
Absent == [e |-> "Absent"]

\* Entry::as_option
as_option(entry) ==
    CASE entry.e = "Allocated" -> entry.id
      [] entry.e = "Tombstone" -> entry.id
      [] OTHER -> NONE

\* QuickMap::MAX_ID
MAX_ID == (2 ^ (U + 1)) - 1

\* QuickMap::new: a store holding no tag
QuickMap_new == [t \in Tags |-> Absent]

\* self.store.values().filter_map(Entry::as_option).collect()
StoreValues(s) == {as_option(s[t]) : t \in {u \in Tags : s[u] # Absent}} \ {NONE}

\* QuickMap::alloc_free_id: the first x of 0..MAX_ID the filter keeps, and the
\* filter keeps x when values contains it
alloc_free_id(s) ==
    LET kept == {x \in 0..(MAX_ID - 1) : x \in StoreValues(s)}
    IN  IF kept = {} THEN NONE
        ELSE LET r == CHOOSE x \in kept : \A y \in kept : x <= y
             IN  IF r < MAX_ID THEN r ELSE NONE

\* what a method leaves behind: the store and the value it returns
QmResult(s, ret) == [store |-> s, ret |-> ret]

\* QuickMap::allocate
allocate(s, tag) ==
    CASE s[tag].e = "Allocated" -> QmResult(s, s[tag].id)
      [] s[tag].e = "Tombstone" ->
            QmResult([s EXCEPT ![tag] = Allocated(s[tag].id)], s[tag].id)
      [] OTHER ->
            LET id == alloc_free_id(s)
            IN  IF id = NONE THEN QmResult(s, NONE)
                ELSE QmResult([s EXCEPT ![tag] = Allocated(id)], id)

\* QuickMap::resolve
resolve(s, tag) ==
    CASE s[tag].e = "Allocated" -> QmResult(s, s[tag].id)
      [] OTHER -> QmResult(s, NONE)

\* QuickMap::tombstone without its write
tombstone_keep(s, tag) == QmResult(s, NONE)

\* QuickMap::tombstone; it returns nothing
tombstone(s, tag) ==
    CASE s[tag].e = "Allocated" ->
            QmResult([s EXCEPT ![tag] = Tombstone(s[tag].id)], NONE)
      [] OTHER -> QmResult(s, NONE)

\* QuickMap::deallocate
deallocate(s, tag) ==
    CASE s[tag].e = "Tombstone" -> QmResult([s EXCEPT ![tag] = Deallocated], NONE)
      [] s[tag].e = "Allocated" -> QmResult(s, s[tag].id)
      [] OTHER -> QmResult(s, NONE)

-----------------------------------------------------------------------------
(* The pipeline: Tokenizer::new, the scan_until_none loop of step calls,       *)
(* token_spans, ShiftReduce::new and the loop of produce_tree.                 *)

NoResult == [kind |-> "none"]

\* Tokenizer::new(inp); the parser is not built yet
Init ==
    /\ inp \in Inputs
    /\ position = 0
    /\ state = Start
    /\ out = <<TokenSpan("ROOT", 0, Len(inp))>>
    /\ pc = "scan"
    /\ tokres = NoResult
    /\ sr_input = <<>>
    /\ sr_position = 0
    /\ look_ahead = TokenSpan("NONE", 0, 0)
    /\ stack = <<>>
    /\ result = NoResult
    /\ rd_pc = "idle"
    /\ eoi_fold = TRUE
    /\ rd_index = 0
    /\ scratch_space = <<>>
    /\ current = EGroup(<<>>)
    /\ tree = EGroup(<<>>)
    /\ rd_result = NoResult
    /\ store = QuickMap_new
    /\ calls = <<>>

\* one turn of `while let Some(token_span) = self.step()` in scan_until_none
Step ==
    /\ pc = "scan"
    /\ \E r \in {step(inp, position, state)} :
           IF r.some
           THEN /\ out' = Append(out, r.span)
                /\ position' = r.position
                /\ state' = r.state
                /\ pc' = "scan"
           ELSE /\ pc' = "scanned"
                /\ UNCHANGED <<out, position, state>>
    /\ UNCHANGED <<inp, tokres, sr_input, sr_position, look_ahead, stack, result>>
    /\ UNCHANGED rd_vars
    /\ UNCHANGED qm_vars

\* ExpectedDifferentTokens with a span over the whole input
ExpectedDifferentTokens_whole(st, text, pos) ==
    [kind     |-> "Err",
     error    |-> "ExpectedDifferentTokens",
     expected |-> [i \in 1..Len(next_states(st)) |-> to_token(next_states(st)[i])],
     span     |-> TokenSpan("EOI", 0, Len(text))]

\* the error token_spans builds when the loop stopped outside EndOfInput
ExpectedDifferentTokens(st, text, pos) ==
    [kind     |-> "Err",
     error    |-> "ExpectedDifferentTokens",
     expected |-> [i \in 1..Len(next_states(st)) |-> to_token(next_states(st)[i])],
     span     |-> TokenSpan("EOI", pos, Len(text))]

\* AllocTokenizer::token_spans after its scan, and ShiftReduceFactory::new, which
\* hands an Ok stream to ShiftReduce::new and returns an Err as it is
TokenSpans ==
    /\ pc = "scanned"
    /\ IF state # EndOfInput
       THEN /\ tokres' = ExpectedDifferentTokens(state, inp, position)
            /\ pc' = "tok_err"
            /\ UNCHANGED <<sr_input, sr_position, look_ahead, stack>>
       ELSE /\ tokres' = [kind |-> "Ok"]
            /\ pc' = "tok_ok"
            /\ sr_input' = out
            /\ sr_position' = 0
            /\ look_ahead' = TokenSpan("NONE", 0, 0)
            /\ stack' = <<>>
    /\ UNCHANGED <<inp, position, state, out, result>>
    /\ UNCHANGED rd_vars
    /\ UNCHANGED qm_vars

\* produce_tree up to its loop: the pre-pump of the look-ahead
PrePump ==
    /\ pc = "tok_ok"
    /\ \E nxt \in {next_input(sr_input, sr_position)} :
           /\ sr_position' = nxt.position
           /\ IF nxt.some
              THEN look_ahead' = nxt.token /\ pc' = "shift" /\ result' = result
              ELSE /\ look_ahead' = look_ahead
                   /\ pc' = "panic"
                   /\ result' = [kind |-> "Panic", msg |-> "invalid reduce pre-pump"]
    /\ UNCHANGED <<inp, position, state, out, tokres, sr_input, stack>>
    /\ UNCHANGED rd_vars
    /\ UNCHANGED qm_vars

\* `if self.shift().is_none()` at the head of the loop
Shift ==
    /\ pc = "shift"
    /\ \E r \in {shift(inp, sr_input, sr_position, look_ahead, stack)} :
           /\ sr_position' = r.position
           /\ look_ahead' = r.look_ahead
           /\ stack' = r.stack
           /\ pc' = IF r.some THEN "reduce_more" ELSE "reduce_first"
    /\ UNCHANGED <<inp, position, state, out, tokres, sr_input, result>>
    /\ UNCHANGED rd_vars
    /\ UNCHANGED qm_vars

\* one call of reduce: the one guarding `break` after a failed shift
\* (reduce_first), or one of `while self.reduce().is_some()` (reduce_more)
Reduce ==
    /\ pc \in {"reduce_first", "reduce_more"}
    /\ \E r \in {reduce(inp, stack)} :
           /\ stack' = r.stack
           /\ IF r.panic # ""
              THEN pc' = "panic" /\ result' = [kind |-> "Panic", msg |-> r.panic]
              ELSE /\ result' = result
                   /\ pc' = IF r.some THEN "reduce_more"
                            ELSE IF pc = "reduce_first" THEN "finish" ELSE "shift"
    /\ UNCHANGED <<inp, position, state, out, tokres, sr_input, sr_position, look_ahead>>
    /\ UNCHANGED rd_vars
    /\ UNCHANGED qm_vars

\* after the loop: the assert on the stack, then pop().unwrap().assert_expr()
Finish ==
    /\ pc = "finish"
    /\ IF Len(stack) # 1
       THEN /\ pc' = "panic"
            /\ result' = [kind |-> "Panic", msg |-> "input left over in parser"]
            /\ stack' = stack
       ELSE IF ~IsExpr(stack[1])
       THEN /\ pc' = "panic"
            /\ result' = [kind |-> "Panic", msg |-> "unreachable: token in asserted expr"]
            /\ stack' = <<>>
       ELSE /\ pc' = "done"
            /\ result' = [kind |-> "Ok", tree |-> stack[1].e]
            /\ stack' = <<>>
    /\ UNCHANGED <<inp, position, state, out, tokres, sr_input, sr_position, look_ahead>>
    /\ UNCHANGED rd_vars
    /\ UNCHANGED qm_vars

\* the variables of the tokenizer and of the shift-reduce parser
sr_vars == <<inp, position, state, out, pc, tokres,
             sr_input, sr_position, look_ahead, stack, result>>

\* a call of recdec's generate_primitive_ast(eoi_fold) on the same input, once
\* the shift-reduce pipeline is through: `self.tokenizer.token_spans()?`, then
\* the setup of the loop.  Parser::produce_tree passes eoi_fold = true.
RdStart ==
    /\ rd_pc = "idle"
    /\ pc \in {"tok_err", "done", "panic"}
    /\ eoi_fold' \in BOOLEAN
    /\ IF tokres.kind = "Err"
       THEN /\ rd_pc' = "done"
            /\ rd_result' = [kind |-> "Err", msg |-> "ExpectedDifferentTokens"]
       ELSE /\ rd_pc' = "loop"
            /\ rd_result' = rd_result
    /\ rd_index' = 1
    /\ scratch_space' = <<>>
    /\ current' = EGroup(<<>>)
    /\ UNCHANGED tree
    /\ UNCHANGED sr_vars
    /\ UNCHANGED qm_vars

\* one turn of the loop over the token stream, or the unreachable!() after it
RdToken ==
    /\ rd_pc = "loop"
    /\ IF rd_index > Len(out)
       THEN /\ rd_pc' = "panic"
            /\ rd_result' = [kind |-> "Panic", msg |-> "unreachable: no EOI"]
            /\ UNCHANGED <<rd_index, scratch_space, current, tree>>
       ELSE \E r \in {rd_token(inp, out[rd_index], scratch_space, current, eoi_fold)} :
                /\ scratch_space' = r.scratch
                /\ current' = r.current
                /\ rd_index' = rd_index + 1
                /\ tree' = IF r.outcome = "ok" THEN r.current ELSE tree
                /\ rd_pc' = CASE r.outcome = "go" -> "loop"
                               [] r.outcome = "panic" -> "panic"
                               [] OTHER -> "done"
                /\ rd_result' = CASE r.outcome = "go" -> rd_result
                                   [] r.outcome = "ok" -> [kind |-> "Ok"]
                                   [] r.outcome = "err" -> [kind |-> "Err", msg |-> r.msg]
                                   [] r.outcome = "panic" -> [kind |-> "Panic", msg |-> r.msg]
    /\ UNCHANGED eoi_fold
    /\ UNCHANGED sr_vars
    /\ UNCHANGED qm_vars

Next == Step \/ TokenSpans \/ PrePump \/ Shift \/ Reduce \/ Finish \/ RdStart \/ RdToken

Spec == Init /\ [][Next]_vars

\* before Tokenizer::new: no input yet
LiveInit ==
    /\ inp = <<>>
    /\ position = 0
    /\ state = Start
    /\ out = <<>>
    /\ pc = "new"
    /\ tokres = NoResult
    /\ sr_input = <<>>
    /\ sr_position = 0
    /\ look_ahead = TokenSpan("NONE", 0, 0)
    /\ stack = <<>>
    /\ result = NoResult
    /\ rd_pc = "idle"
    /\ eoi_fold = TRUE
    /\ rd_index = 0
    /\ scratch_space = <<>>
    /\ current = EGroup(<<>>)
    /\ tree = EGroup(<<>>)
    /\ rd_result = NoResult
    /\ store = QuickMap_new
    /\ calls = <<>>

\* Tokenizer::new(inp), and scan_until_none up to its loop
New ==
    /\ pc = "new"
    /\ inp' \in Inputs
    /\ out' = <<TokenSpan("ROOT", 0, Len(inp'))>>
    /\ pc' = "scan"
    /\ UNCHANGED <<position, state, tokres, sr_input, sr_position, look_ahead, stack, result>>
    /\ UNCHANGED rd_vars
    /\ UNCHANGED qm_vars

LiveNext == New \/ Next

\* both parsers returned or panicked, or the tokenizer's error was returned:
\* the states in which no action is enabled
Halted == pc \in {"tok_err", "done", "panic"} /\ rd_pc \in {"done", "panic"}

\* the pipeline keeps running until it has halted: weak fairness of LiveNext,
\* WF_vars(LiveNext), with ENABLED <<LiveNext>>_vars written out as ~Halted
LiveSpec == LiveInit /\ [][LiveNext]_vars /\ ([]<>Halted \/ []<><<LiveNext>>_vars)

-----------------------------------------------------------------------------
(* The shift-reduce parser on the stream of any tokenizer.  ShiftReduce::new  *)
(* takes a Vec<TokenSpan> from whatever ITokenizer the factory was handed; the *)
(* streams here are ROOT, up to MaxWords tokens one space apart, then EOI.     *)

MaxWords == 4

\* the tokens the streams are made of, each with its text
Words ==
    {[token |-> "LPAREN", str |-> <<"(">>],
     [token |-> "RPAREN", str |-> <<")">>],
     [token |-> "TAG",    str |-> <<"a", "a">>],
     [token |-> "TAG",    str |-> <<"b">>],
     [token |-> "AND",    str |-> <<",">>]}

RECURSIVE WordSeqs(_)
WordSeqs(n) ==
    IF n = 0 THEN {<<>>}
    ELSE WordSeqs(n - 1) \cup {Append(w, q) : w \in WordSeqs(n - 1), q \in Words}

\* the text of the words, one space between two of them
RECURSIVE WordsText(_)
WordsText(ws) ==
    IF ws = <<>> THEN <<>>
    ELSE IF Len(ws) = 1 THEN ws[1].str
    ELSE ws[1].str \o <<" ">> \o WordsText(Tail(ws))

\* the stream of the words: ROOT over the text, a span for each word, EOI at the end
WordsStream(ws) ==
    <<TokenSpan("ROOT", 0, Len(WordsText(ws)))>>
    \o [i \in 1..Len(ws) |->
            TokenSpan(ws[i].token,
                      Len(WordsText(SubSeq(ws, 1, i))) - Len(ws[i].str),
                      Len(WordsText(SubSeq(ws, 1, i))))]
    \o <<TokenSpan("EOI", Len(WordsText(ws)), Len(WordsText(ws)))>>

\* the stream of the words without the EOI at its end
WordsStreamOpen(ws) == SubSeq(WordsStream(ws), 1, Len(ws) + 1)

\* ShiftReduce::new on the stream of the words, with or without its EOI
StreamsInit ==
    /\ \E ws \in WordSeqs(MaxWords) :
           /\ inp = WordsText(ws)
           /\ out \in {WordsStream(ws), WordsStreamOpen(ws)}
           /\ sr_input = out
    /\ position = Len(inp)
    /\ state = EndOfInput
    /\ pc = "tok_ok"
    /\ tokres = [kind |-> "Ok"]
    /\ sr_position = 0
    /\ look_ahead = TokenSpan("NONE", 0, 0)
    /\ stack = <<>>
    /\ result = NoResult
    /\ rd_pc = "idle"
    /\ eoi_fold = TRUE
    /\ rd_index = 0
    /\ scratch_space = <<>>
    /\ current = EGroup(<<>>)
    /\ tree = EGroup(<<>>)
    /\ rd_result = NoResult
    /\ store = QuickMap_new
    /\ calls = <<>>

\* ShiftReduce::produce_tree
StreamsNext == PrePump \/ Shift \/ Reduce \/ Finish

SpecStreams == StreamsInit /\ [][StreamsNext]_vars

\* produce_tree returned or panicked: the states in which StreamsNext is not enabled
Returned == pc \in {"done", "panic"}

\* produce_tree keeps running until it has returned: weak fairness of
\* StreamsNext, WF_vars(StreamsNext), with ENABLED <<StreamsNext>>_vars
\* written out as ~Returned
LiveStreams == SpecStreams /\ ([]<>Returned \/ []<><<StreamsNext>>_vars)

-----------------------------------------------------------------------------
(* A QuickMap and the calls made on it *)

\* the number of calls a run makes
MaxCalls == 3

\* the entries a tag can have
Entries ==
    {Absent, Deallocated}
        \cup {Allocated(i) : i \in 0..(MAX_ID - 1)}
        \cup {Tombstone(i) : i \in 0..(MAX_ID - 1)}

\* no two tags with Allocated or Tombstone entries share an id
DistinctIds(s) ==
    \A t \in Tags : \A u \in Tags \ {t} :
        as_option(s[t]) # NONE => as_option(s[t]) # as_option(s[u])

\* the stores the methods are applied to: QuickMap::new(), which holds no
\* tag, and every store of distinct ids that allocate is meant to build
Stores == {s \in [Tags -> Entries] : DistinctIds(s)}

QuickMapInit ==
    /\ store \in Stores
    /\ calls = <<>>
    /\ inp = <<>>
    /\ position = 0
    /\ state = Start
    /\ out = <<>>
    /\ pc = "new"
    /\ tokres = NoResult
    /\ sr_input = <<>>
    /\ sr_position = 0
    /\ look_ahead = TokenSpan("NONE", 0, 0)
    /\ stack = <<>>
    /\ result = NoResult
    /\ rd_pc = "idle"
    /\ eoi_fold = TRUE
    /\ rd_index = 0
    /\ scratch_space = <<>>
    /\ current = EGroup(<<>>)
    /\ tree = EGroup(<<>>)
    /\ rd_result = NoResult

\* the record of one call: the method, its tag, the entry it found and what
\* it returned
CallRecord(op, tag, found, ret) == [op |-> op, tag |-> tag, found |-> found, ret |-> ret]

\* a call of allocate(tag)
CallAllocate ==
    \E tag \in Tags : \E r \in {allocate(store, tag)} :
        /\ Len(calls) < MaxCalls
        /\ store' = r.store
        /\ calls' = Append(calls, CallRecord("allocate", tag, store[tag], r.ret))
        /\ UNCHANGED sr_vars
        /\ UNCHANGED rd_vars

\* a call of resolve(tag)
CallResolve ==
    \E tag \in Tags : \E r \in {resolve(store, tag)} :
        /\ Len(calls) < MaxCalls
        /\ store' = r.store
        /\ calls' = Append(calls, CallRecord("resolve", tag, store[tag], r.ret))
        /\ UNCHANGED sr_vars
        /\ UNCHANGED rd_vars

\* a call of tombstone(tag)
CallTombstone ==
    \E tag \in Tags : \E r \in {tombstone(store, tag)} :
        /\ Len(calls) < MaxCalls
        /\ store' = r.store
        /\ calls' = Append(calls, CallRecord("tombstone", tag, store[tag], r.ret))
        /\ UNCHANGED sr_vars
        /\ UNCHANGED rd_vars

\* a call of deallocate(tag)
CallDeallocate ==
    \E tag \in Tags : \E r \in {deallocate(store, tag)} :
        /\ Len(calls) < MaxCalls
        /\ store' = r.store
        /\ calls' = Append(calls, CallRecord("deallocate", tag, store[tag], r.ret))
        /\ UNCHANGED sr_vars
        /\ UNCHANGED rd_vars

QuickMapNext == CallAllocate \/ CallResolve \/ CallTombstone \/ CallDeallocate

SpecQuickMap == QuickMapInit /\ [][QuickMapNext]_vars

-----------------------------------------------------------------------------
(* The claims *)

\* the tokens of a returned stream between ROOT and EOI that hold byte p of the input
TokensAt(p) == {i \in 2..(Len(out) - 1) : out[i].start < p /\ p <= out[i].end}

\* byte p is whitespace between the end of one span and the start of the next
InGap(p) ==
    /\ inp[p] \in Whitespace
    /\ \E i \in 2..(Len(out) - 1) : out[i].end < p /\ p <= out[i + 1].start

\* C1: a stream the FSM tokenizer returns starts with ROOT over 0..len(s), ends
\* with a zero-width EOI at len(s), and the spans in between, in order, tile s:
\* every byte of s lies in exactly one of them or is whitespace in the gap
\* between two consecutive spans
C1_StreamTilesInput ==
    tokres.kind = "Ok" =>
        /\ Len(out) >= 2
        /\ out[1] = TokenSpan("ROOT", 0, Len(inp))
        /\ out[Len(out)] = TokenSpan("EOI", Len(inp), Len(inp))
        /\ \A i \in 2..(Len(out) - 1) :
               out[i].start <= out[i].end /\ out[i].end <= out[i + 1].start
        /\ \A p \in 1..Len(inp) :
               \/ Cardinality(TokensAt(p)) = 1
               \/ TokensAt(p) = {} /\ InGap(p)

\* a stream of three tokens or more with whitespace between two of them
C1_Witness ==
    /\ tokres.kind = "Ok"
    /\ Len(out) >= 5
    /\ \E i \in 2..(Len(out) - 2) : out[i].end < out[i + 1].start

\* C2: the tokenizer followed by produce_tree ends in Ok or Err on every input;
\* no input reaches a panic
C2_NoPanic == pc # "panic"

\* C3: tokenization returns an error exactly when the step loop stopped in a
\* state other than EndOfInput, no successor of it matching the rest of the
\* input; the error is ExpectedDifferentTokens, its expected list the token
\* kinds of the successors in table order, its span from the cursor to the end
\* of the input; a loop that stopped in EndOfInput returns Ok
C3_ErrorIffStuck ==
    tokres.kind # "none" =>
        /\ tokres.kind = "Err" <=> state # EndOfInput
        /\ tokres.kind = "Ok" <=> state = EndOfInput
        /\ tokres.kind = "Err" =>
               /\ \A i \in 1..Len(next_states(state)) :
                      matches(next_states(state)[i], SliceFrom(inp, position)) = NONE
               /\ tokres.error = "ExpectedDifferentTokens"
               /\ tokres.expected =
                      [i \in 1..Len(next_states(state)) |-> to_token(next_states(state)[i])]
               /\ tokres.span.start = position
               /\ tokres.span.end = Len(inp)

\* an error in the middle of the input, after a tag
C3_Witness ==
    /\ tokres.kind = "Err"
    /\ state = Tag
    /\ 0 < position /\ position < Len(inp)
    /\ tokres.expected = <<"AND", "OR", "RPAREN", "EOI">>

\* the expression e and every expression below it
RECURSIVE Nodes(_)
Nodes(e) ==
    {e} \cup
    (CASE e.k \in {"Combine", "Group"} ->
              UNION {Nodes(e.children[i]) : i \in 1..Len(e.children)}
       [] e.k = "Apply" -> Nodes(e.child)
       [] OTHER -> {})

SameKindChild(n) ==
    /\ n.k = "Combine"
    /\ \E i \in 1..Len(n.children) : n.children[i].k = "Combine" /\ n.children[i].op = n.op

\* C4: a tree the parse returns holds no Group at any depth and no Combine
\* with an immediate child Combine of the same operator
C4_NoGroupNoSameKindChild ==
    result.kind = "Ok" =>
        \A n \in Nodes(result.tree) : n.k # "Group" /\ ~SameKindChild(n)

\* the tokens of kind tok among the first k of the stream handed to the parser
Count(tok, k) == Cardinality({i \in 1..k : sr_input[i].token = tok})

\* an RPAREN with no LPAREN open, or an LPAREN never closed
Unbalanced ==
    \/ \E k \in 1..Len(sr_input) : Count("RPAREN", k) > Count("LPAREN", k)
    \/ Count("LPAREN", Len(sr_input)) # Count("RPAREN", Len(sr_input))

\* C5: on a tokenizable input with unbalanced parentheses the parse ends in
\* an ExpectedDifferentTokens error value, not in a tree and not in a crash
C5_UnbalancedIsError ==
    (tokres.kind = "Ok" /\ Unbalanced /\ result.kind # "none") =>
        (result.kind = "Err" /\ result.error = "ExpectedDifferentTokens")

\* ROOT, TAG, AND, TAG, ..., TAG, EOI for n tags
ChainTokens(n) ==
    <<"ROOT">> \o [i \in 1..(2 * n - 1) |-> IF i % 2 = 1 THEN "TAG" ELSE "AND"] \o <<"EOI">>

\* C6: a chain of n >= 3 tags joined by AND, one-character tags included,
\* tokenizes to ROOT, TAG, AND, TAG, ..., TAG, EOI and parses to one flat
\* Combine(And, [t1, ..., tn])
C6_ChainIsFlat ==
    \A t \in Chains : \A sep \in AndSpellings :
        inp = Join(t, sep) =>
            /\ tokres.kind # "Err"
            /\ pc # "panic"
            /\ tokres.kind = "Ok" => [i \in 1..Len(out) |-> out[i].token] = ChainTokens(Len(t))
            /\ result.kind = "Ok" =>
                   result.tree = ECombine("And", [i \in 1..Len(t) |-> ETag(t[i])])

\* the value Integer(d) of a numeral d without sign
IntegerOf(d) == [v |-> "Integer", neg |-> FALSE, mag |-> StripZeros(d)]

\* the tokens and the tree of `name.gte:<digits>`, the tree holding the field name
\* stored; a numeral shorter than that of i128::MAX denotes a value inside i128
GteParses(name, d, stored) ==
    /\ tokres.kind # "Err"
    /\ pc # "panic"
    /\ tokres.kind = "Ok" =>
           out = <<TokenSpan("ROOT", 0, Len(inp)),
                   TokenSpan("FIELD", 0, Len(name) + 1),
                   TokenSpan("RANGE", Len(name) + 1, Len(name) + 5),
                   TokenSpan("INTEGER", Len(name) + 5, Len(inp)),
                   TokenSpan("EOI", Len(inp), Len(inp))>>
    /\ result.kind = "Ok" =>
           result.tree = EComparison(stored, "GreaterThanOrEqual", IntegerOf(d))

\* C7 as stated: `name.gte:<digits>` tokenizes to ROOT, FIELD over `name.`,
\* RANGE over `gte:`, INTEGER over the digits, EOI, and parses to
\* Comparison(field, GreaterThanOrEqual, Integer(value)), the field name in the
\* tree being the FIELD text without its trailing dot
C7_FieldWithoutDot ==
    \A n \in FieldNames : \A d \in Numerals :
        (inp = n \o <<".", "g", "t", "e", ":">> \o d /\ Len(d) < Len(I128Max)) =>
            GteParses(n, d, n)

\* C7, amended: the same tokens, and the field name in the tree is the FIELD
\* text as it is, trailing dot included
C7_FieldWithDot ==
    \A n \in FieldNames : \A d \in Numerals :
        (inp = n \o <<".", "g", "t", "e", ":">> \o d /\ Len(d) < Len(I128Max)) =>
            GteParses(n, d, n \o <<".">>)

\* `field.gte:1000` parsed
C7_Witness ==
    /\ inp = <<"f", "i", "e", "l", "d", ".", "g", "t", "e", ":", "1", "0", "0", "0">>
    /\ result.kind = "Ok"
    /\ result.tree.field = <<"f", "i", "e", "l", "d", ".">>

\* the operands of scenario S3, field names as the parser stores them
S3_field == EComparison(<<"f", "i", "e", "l", "d", ".">>, "GreaterThanOrEqual", [v |-> "Integer", neg |-> FALSE, mag |-> <<"1", "0", "0", "0">>])
S3_data == EComparison(<<"d", "a", "t", "a", ".">>, "NotEqual", [v |-> "Integer", neg |-> FALSE, mag |-> <<"2", "0">>])
S3_bla == EComparison(<<"b", "l", "a", ".">>, "GreaterThanOrEqual", [v |-> "Float", neg |-> FALSE, int |-> <<"1", "0", "0">>, frac |-> <<"2">>])
S3_test == EComparison(<<"t", "e", "s", "t", ".">>, "LessThanOrEqual", [v |-> "Integer", neg |-> TRUE, mag |-> <<"1", "0">>])
S3_tag == ETag(<<"t", "a", "g">>)

\* C8: the input of scenario S3 parses to Combine(And, [Combine(Or,
\* [Combine(And, [field>=1000, data!=20]), Combine(And, [bla>=100.2, Tag tag])]),
\* test<=-10, Tag tag]): inside the outer group `bla.gte:100.2,tag` is an And
\* of its own, the right operand of the Or
C8_S3Tree ==
    inp = S3Input =>
        /\ tokres.kind # "Err"
        /\ pc # "panic"
        /\ result.kind = "Ok" =>
               result.tree =
                   ECombine("And",
                       <<ECombine("Or", <<ECombine("And", <<S3_field, S3_data>>),
                                          ECombine("And", <<S3_bla, S3_tag>>)>>),
                         S3_test, S3_tag>>)

\* the text after the prefix pre
After(text, pre) == SliceFrom(text, Len(pre))

\* the expression an operand of ExprInputs stands for
AtomExpr(a) ==
    CASE a = <<"a", "a">> -> ETag(<<"a", "a">>)
      [] a = <<"b", "b">> -> ETag(<<"b", "b">>)
      [] a = <<"c", "c">> -> ETag(<<"c", "c">>)
      [] a = <<"-", "a", "a">> -> EApply("Not", ETag(<<"a", "a">>))
      [] a = <<"f", ".", "g", "t", "e", ":", "1">> -> EComparison(<<"f", ".">>, "GreaterThanOrEqual", IntegerOf(<<"1">>))

OpOf(o) == IF o \in AndSpellings THEN "And" ELSE "Or"

\* `x op1 y op2 z` with op1 # op2 ends in Combine(op2, [Combine(op1, [x, y]), z]),
\* for every x and y (equalToo) or for x different from y only
GroupsLeftToRight(equalToo) ==
    pc \in {"tok_err", "panic", "done"} =>
        \A x \in Atoms : starts_with(inp, x) =>
        \A o1 \in OpSpellings : starts_with(After(inp, x), o1) =>
        \A y \in Atoms : starts_with(After(inp, x \o o1), y) =>
        \A o2 \in OpSpellings : starts_with(After(inp, x \o o1 \o y), o2) =>
        \A z \in Atoms :
            (/\ After(inp, x \o o1 \o y \o o2) = z
             /\ OpOf(o1) # OpOf(o2)
             /\ equalToo \/ AtomExpr(x) # AtomExpr(y)) =>
                /\ pc = "done"
                /\ result.tree =
                       ECombine(OpOf(o2),
                           <<ECombine(OpOf(o1), <<AtomExpr(x), AtomExpr(y)>>), AtomExpr(z)>>)

\* C9 as stated: AND and OR have no relative precedence: without parentheses,
\* `x op1 y op2 z` with op1 # op2 parses to Combine(op2, [Combine(op1, [x, y]), z])
\* for all expressions x, y, z
C9_LeftToRight == GroupsLeftToRight(TRUE)

\* C9, amended: the same, for x structurally different from y
C9_LeftToRightDistinct == GroupsLeftToRight(FALSE)

\* an And of two operands became the left operand of an Or
C9_Witness ==
    /\ inp \in ExprInputs
    /\ result.kind = "Ok"
    /\ result.tree.k = "Combine" /\ result.tree.op = "Or"
    /\ result.tree.children[1].k = "Combine" /\ result.tree.children[1].op = "And"
    /\ result.tree.children[2].k = "Comparison"

\* reduce is about to be called with Expr, AND or OR, Expr on top of the stack,
\* the two expressions equal
EqualPairOnTop ==
    /\ pc \in {"reduce_first", "reduce_more"}
    /\ Len(stack) >= 3
    /\ IsExpr(stack[Len(stack) - 2])
    /\ IsToken(stack[Len(stack) - 1], {"AND", "OR"})
    /\ IsExpr(stack[Len(stack)])
    /\ stack[Len(stack) - 2].e = stack[Len(stack)].e

\* the three are replaced by the one expression
CollapsesToOne ==
    stack' = Append(SubSeq(stack, 1, Len(stack) - 3), stack[Len(stack)])

EqualPair(n) == n.k = "Combine" /\ Len(n.children) = 2 /\ n.children[1] = n.children[2]

\* C10: reducing `e1 AND e2` or `e1 OR e2` with e1 structurally equal to e2
\* leaves the single expression e1, and so no tree the parse returns holds a
\* Combine whose children are two equal expressions
C10_Idempotence ==
    /\ [](result.kind = "Ok" => \A n \in Nodes(result.tree) : ~EqualPair(n))
    /\ [][EqualPairOnTop => CollapsesToOne]_vars

\* `aa&&aa` parsed to Tag aa
C10_Witness ==
    /\ inp = <<"a", "a", "&", "&", "a", "a">>
    /\ result.kind = "Ok"
    /\ result.tree = ETag(<<"a", "a">>)

\* the parse ended, and in the tree e
ParsesTo(e) == pc = "done" /\ result.tree = e

\* `p x`, `p x o y` and `p ( x o y )` for a spelling p of NOT end in
\* Apply(Not, x), Combine(o, [Apply(Not, x), y]) and Apply(Not, x o y)
NotBindsNext ==
    pc \in {"tok_err", "panic", "done"} =>
        \A p \in NotSpellings : starts_with(inp, p) =>
        \A x \in PlainAtoms :
            /\ After(inp, p) = x => ParsesTo(EApply("Not", AtomExpr(x)))
            /\ starts_with(After(inp, p), x) =>
                   \A o \in OpSpellings : \A y \in PlainAtoms :
                       After(inp, p \o x) = o \o y =>
                           ParsesTo(ECombine(OpOf(o),
                                        <<EApply("Not", AtomExpr(x)), AtomExpr(y)>>))
            /\ starts_with(After(inp, p), <<"(">> \o x) =>
                   \A o \in OpSpellings : \A y \in PlainAtoms :
                       After(inp, p \o <<"(">> \o x) = o \o y \o <<")">> =>
                           ParsesTo(EApply("Not",
                                        IF x = y THEN AtomExpr(x)
                                        ELSE ECombine(OpOf(o), <<AtomExpr(x), AtomExpr(y)>>)))

\* reduce is about to be called with NOT, Expr on top of the stack
NotOnTop ==
    /\ pc \in {"reduce_first", "reduce_more"}
    /\ Len(stack) >= 2
    /\ IsToken(stack[Len(stack) - 1], {"NOT"})
    /\ IsExpr(stack[Len(stack)])

\* the two are replaced by Apply(Not, expr)
BecomesApply ==
    stack' = Append(SubSeq(stack, 1, Len(stack) - 2),
                    TExpr(EApply("Not", stack[Len(stack)].e)))

\* C11: a NOT token (`NOT`, `!` or `-`) followed by an expression reduces to
\* Apply(Not, expr) and binds only the atom right after it: `-foo` parses to
\* Apply(Not, Tag foo), `-aa,bb` to Combine(And, [Apply(Not, aa), bb]) and
\* `-(aa,bb)` to Apply(Not, Combine(And, [aa, bb]))
C11_NotBindsNext ==
    /\ [](inp = <<"-", "f", "o", "o">> => (pc \in {"tok_err", "panic", "done"} =>
                             ParsesTo(EApply("Not", ETag(<<"f", "o", "o">>)))))
    /\ []NotBindsNext
    /\ [][NotOnTop => BecomesApply]_vars

\* `-(aa,bb)` parsed to Apply(Not, Combine(And, [aa, bb]))
C11_Witness ==
    /\ inp = <<"-", "(", "a", "a", ",", "b", "b", ")">>
    /\ ParsesTo(EApply("Not", ECombine("And", <<ETag(<<"a", "a">>), ETag(<<"b", "b">>)>>)))

\* the expression a member of ParenCores stands for
CoreExpr(c) ==
    IF c = <<>> THEN EEmpty
    ELSE IF c = <<"a", "a", ",", "b", "b">> THEN ECombine("And", <<ETag(<<"a", "a">>), ETag(<<"b", "b">>)>>)
    ELSE IF c = <<"a", "a", "|", "|", "b", "b">> THEN ECombine("Or", <<ETag(<<"a", "a">>), ETag(<<"b", "b">>)>>)
    ELSE AtomExpr(c)

\* reduce is about to be called with the tokens LPAREN, RPAREN on top
EmptyParensOnTop ==
    /\ pc \in {"reduce_first", "reduce_more"}
    /\ Len(stack) >= 2
    /\ IsToken(stack[Len(stack) - 1], {"LPAREN"})
    /\ IsToken(stack[Len(stack)], {"RPAREN"})

\* reduce is about to be called with LPAREN, Expr, RPAREN on top
ParensOnTop ==
    /\ pc \in {"reduce_first", "reduce_more"}
    /\ Len(stack) >= 3
    /\ IsToken(stack[Len(stack) - 2], {"LPAREN"})
    /\ IsExpr(stack[Len(stack) - 1])
    /\ IsToken(stack[Len(stack)], {"RPAREN"})

\* C12: parenthesised groups are eliminated: `()` parses to Empty, k >= 1
\* nested pairs of parentheses around one expression e parse to e, and the
\* reduction leaves the stack below the opening parenthesis as it was, with
\* Empty or e alone in the place of the group
C12_ParensEliminated ==
    /\ [](pc \in {"tok_err", "panic", "done"} =>
             \A c \in ParenCores : \A k \in 1..MaxDepth :
                 inp = Wrapped(c, k) => ParsesTo(CoreExpr(c)))
    /\ [][EmptyParensOnTop =>
             stack' = Append(SubSeq(stack, 1, Len(stack) - 2), TExpr(EEmpty))]_vars
    /\ [][ParensOnTop =>
             stack' = Append(SubSeq(stack, 1, Len(stack) - 3), stack[Len(stack) - 1])]_vars

\* `(((aa,bb)))` parsed to Combine(And, [aa, bb])
C12_Witness ==
    /\ inp = Wrapped(<<"a", "a", ",", "b", "b">>, MaxDepth)
    /\ ParsesTo(ECombine("And", <<ETag(<<"a", "a">>), ETag(<<"b", "b">>)>>))

\* the stream of the empty input: ROOT and EOI, both 0..0
EmptyStream == <<TokenSpan("ROOT", 0, 0), TokenSpan("EOI", 0, 0)>>

\* C13: the empty input tokenizes to exactly [ROOT(0..0), EOI(0..0)], and
\* parsing that stream returns the tree Empty
C13_EmptyInput ==
    inp = <<>> =>
        /\ tokres.kind # "Err"
        /\ tokres.kind = "Ok" => out = EmptyStream
        /\ pc # "panic"
        /\ pc = "done" => result.tree = EEmpty

\* the characters of text are all white space, and there is at least one
WhitespaceOnly(text) == text # <<>> /\ \A i \in 1..Len(text) : text[i] \in Whitespace

\* C14: an input of white space only behaves like the empty input:
\* tokenization succeeds with the stream [ROOT, EOI], no error and no other
\* token, and parsing yields Empty
C14_WhitespaceOnly ==
    WhitespaceOnly(inp) =>
        /\ tokres.kind # "Err"
        /\ tokres.kind = "Ok" => <<out[1].token, out[2].token>> = <<"ROOT", "EOI">> /\ Len(out) = 2
        /\ pc # "panic"
        /\ pc = "done" => result.tree = EEmpty

\* from the token at index from on, each start is below the next one and each
\* span ends at or before the start of the next one
StrictlyOrdered(from) ==
    \A i \in from..(Len(out) - 1) :
        /\ out[i].start < out[i + 1].start
        /\ out[i].end <= out[i + 1].start

C16_CursorAndSpansInBounds ==
    /\ 0 <= position
    /\ position <= Len(inp)
    /\ \A i \in 1..Len(out) :
           /\ 0 <= out[i].start
           /\ out[i].start <= out[i].end
           /\ out[i].end <= Len(inp)

\* a span was trimmed to nothing and the cursor went on past it (`  aa`), or
\* the cursor skipped white space and reached the end of the input
C16_Witness ==
    /\ Len(out) >= 2
    /\ \/ /\ out[Len(out)].token = "TAG"
          /\ out[Len(out)].end < position
          /\ starts_with(inp, <<" ", " ">>)
       \/ /\ out[Len(out)].token = "EOI"
          /\ position = Len(inp)
          /\ \E i \in 2..(Len(out) - 1) : out[i].end < out[i + 1].start

\* a comes before b in the list of successors
Before(successors, a, b) ==
    \E i, j \in 1..Len(successors) : i < j /\ successors[i] = a /\ successors[j] = b

FieldComparators ==
    {"Equal", "NotEqual", "LessThan", "LessThanOrEqual", "GreaterThan", "GreaterThanOrEqual"}

\* C17: after each of eq, neq, lt, lte, gt, gte the Float matcher and the
\* AbsoluteDate matcher are tried before the Integer matcher, so an INTEGER
\* token never takes the leading digits of a literal that Float or
\* AbsoluteDate matches
C17_FloatAndDateBeforeInteger ==
    /\ \A v \in FieldComparators :
           /\ Before(next_states(Comparator(v)), DataValue("Float"), DataValue("Integer"))
           /\ Before(next_states(Comparator(v)), DataValue("AbsoluteDate"), DataValue("Integer"))
    /\ \A i \in 2..Len(out) :
           out[i].token = "INTEGER" =>
               /\ FLOAT_find(SliceFrom(inp, out[i].start)) = NONE
               /\ ABS_DATE_find(SliceFrom(inp, out[i].start)) = NONE

\* the comparator between `f.` and `1` in an input of CaseInputs
SpelledComparator == Slice(inp, 2, Len(inp) - 1)

\* C18: comparator letters are case-insensitive: every upper and lower case
\* variant of gte:, gt:, lte:, lt:, eq:, neq: is accepted after a FIELD as a
\* RANGE token, and the parser maps it to the Comp of the lower case spelling
C18_ComparatorsCaseInsensitive ==
    inp \in CaseInputs =>
        /\ tokres.kind # "Err"
        /\ tokres.kind = "Ok" => out[3] = TokenSpan("RANGE", 2, Len(inp) - 1)
        /\ pc # "panic"
        /\ pc = "done" =>
               result.tree = EComparison(<<"f", ".">>,
                                 str_to_comp(to_ascii_lowercase(SpelledComparator)),
                                 IntegerOf(<<"1">>))

\* every BOOLEAN token emitted comes right after a token of one of the kinds
BooleanOnlyAfter(kinds) ==
    \A i \in 2..Len(out) : out[i].token = "BOOLEAN" => out[i - 1].token \in kinds

Remainder == SliceFrom(inp, position)

\* C20: the Tag and Field matchers return no match whenever the lexeme they
\* scan (for a field, name plus dot) is shorter than 2, and no TAG or FIELD
\* token shorter than 2 bytes is ever emitted
C20_TagAndFieldAtLeastTwo ==
    /\ TagLexem_find_end(Remainder) < 2 => Tag_matches(Remainder) = NONE
    /\ FieldLexem_find_end(Remainder) < 2 => Field_matches(Remainder) = NONE
    /\ \A i \in 2..Len(out) :
           out[i].token \in {"TAG", "FIELD"} => out[i].end - out[i].start >= 2

\* C21: the tokenizer never emits a FIELD token longer than 65 bytes, the dot
\* included, nor a TAG token longer than 255 bytes: an identifier over its
\* bound is not accepted as a token of that kind
C21_IdentifierBounds ==
    \A i \in 2..Len(out) :
        /\ out[i].token = "FIELD" => out[i].end - out[i].start <= maximum_bound(Field)
        /\ out[i].token = "TAG" => out[i].end - out[i].start <= maximum_bound(Tag)

\* the stream of an input that is one tag
OneTagStream ==
    <<TokenSpan("ROOT", 0, Len(inp)), TokenSpan("TAG", 0, Len(inp)),
      TokenSpan("EOI", Len(inp), Len(inp))>>

\* C22: AND, OR, NOT, && and || end an identifier only at a word boundary: an
\* identifier that merely holds those letters (`LANDSCAPE`, `BAND`, a name
\* ending in an upper case A, N or O) is scanned as one whole TAG
C22_KeywordsAtWordBoundary ==
    inp \in EmbeddedWords =>
        /\ tokres.kind # "Err"
        /\ pc = "scanned" /\ state = EndOfInput => out = OneTagStream

\* the stream holds an INTEGER token whose digits do not fit an i128
IntegerOverflows ==
    \E i \in 2..Len(out) :
        out[i].token = "INTEGER" /\ ~ParseI128(TokenSpan_str(inp, out[i])).ok

\* C23: when the digits of an INTEGER token do not fit a signed 128-bit
\* integer, parsing returns the error ParseIntError: neither parser aborts on
\* it, the shift-reduce parser returns no tree, and the recdec parser returns
\* the error once it gets to the token
C23_OverflowIsParseIntError ==
    IntegerOverflows =>
        /\ pc \notin {"panic", "done"}
        /\ rd_pc = "done" => rd_result = [kind |-> "Err", msg |-> "ParseIntError"]

\* recdec's produce_tree returned a tree: generate_primitive_ast(true) was Ok
RecdecReturnedTree == rd_pc = "done" /\ eoi_fold /\ rd_result.kind = "Ok"

\* the kinds of token the recdec parser has rules for
RecdecTokens ==
    {"ROOT", "TAG", "AND", "OR", "LPAREN", "RPAREN", "FIELD", "RANGE", "INTEGER", "EOI"}

\* C24: on every stream of tags, AND and OR, balanced parentheses and integer
\* gte and lt comparisons on which recdec's produce_tree returns a tree,
\* shift_reduce's produce_tree returns a structurally equal tree
C24_RecdecEqualsShiftReduce ==
    RecdecReturnedTree /\ (\A i \in 1..Len(out) : out[i].token \in RecdecTokens) =>
        pc = "done" /\ result.tree = tree

\* the strings of the FIELD tokens of the stream
FieldTokens == {TokenSpan_str(inp, out[i]) : i \in {j \in 1..Len(out) : out[j].token = "FIELD"}}

\* e has no Field node, and the field of each Comparison in it is the string
\* of a FIELD token
FieldsOnlyInComparisons(e) ==
    \A n \in Nodes(e) :
        /\ n.k # "Field"
        /\ n.k = "Comparison" => n.field \in FieldTokens

\* C29: no tree a parser returns holds an Expr::Field node: a FIELD token of
\* the stream ends up only as the field name of a Comparison node
C29_NoFieldNode ==
    /\ pc = "done" => FieldsOnlyInComparisons(result.tree)
    /\ rd_pc = "done" /\ rd_result.kind = "Ok" => FieldsOnlyInComparisons(tree)

\* both parsers returned a tree of `aa,f.lt:5`, with the comparison on `f.`
C29_Witness ==
    /\ inp = <<"a", "a", ",", "f", ".", "l", "t", ":", "5">>
    /\ pc = "done"
    /\ RecdecReturnedTree
    /\ \E n \in Nodes(result.tree) : n.k = "Comparison" /\ n.field = <<"f", ".">>
    /\ \E n \in Nodes(tree) : n.k = "Comparison" /\ n.field = <<"f", ".">>

\* C30: the fold at EOI runs when eoi_fold is enabled: with eoi_fold = true
\* the scratch frames are merged into the result and a top-level Group with
\* one child is unwrapped until the result is no such Group; with
\* eoi_fold = false the frames stay on the scratch space and the tree is
\* returned unfolded
C30_FoldWhenEnabled ==
    rd_pc = "done" /\ rd_result.kind = "Ok" =>
        IF eoi_fold
        THEN scratch_space = <<>> /\ ~(tree.k = "Group" /\ Len(tree.children) = 1)
        ELSE scratch_space # <<>>

\* the step taken commits successor i of the current state: the first in table
\* order whose matcher accepts n bytes at the cursor
CommitsSuccessor(i, n) ==
    /\ n # NONE
    /\ \A j \in 1..(i - 1) : matches(next_states(state)[j], SliceFrom(inp, position)) = NONE
    /\ out' = Append(out, TokenSpan(to_token(next_states(state)[i]), position, position + n))
    /\ position' = position + n + leading_whitespace(SliceFrom(inp, position + n))
    /\ state' = next_states(state)[i]

\* a step of the tokenizer that emitted a token
StepEmitted == pc = "scan" /\ Len(out') = Len(out) + 1

\* the token after each FIELD is RANGE, the one after each RANGE a data
\* literal, and the one after AND or OR is neither RPAREN nor EOI
SuccessorKinds ==
    \A i \in 1..(Len(out) - 1) :
        /\ out[i].token = "FIELD" => out[i + 1].token = "RANGE"
        /\ out[i].token = "RANGE" => out[i + 1].token \in ValueTokens
        /\ out[i].token \in {"AND", "OR"} => out[i + 1].token \notin {"RPAREN", "EOI"}

\* C25: each step of the FSM commits the first successor, in the table order
\* of the current state, whose matcher accepts the text at the cursor: it
\* emits the span (cursor, cursor + n) of that successor's kind, advances the
\* cursor by n and the whitespace after it, and makes the successor the state;
\* so in every stream FIELD is followed by RANGE, RANGE by a data literal, and
\* AND or OR by neither RPAREN nor EOI
C25_StepCommitsFirstSuccessor ==
    /\ [][StepEmitted =>
            \E i \in 1..Len(next_states(state)) :
                CommitsSuccessor(i, matches(next_states(state)[i], SliceFrom(inp, position)))]_vars
    /\ []SuccessorKinds

\* the places of the EOI tokens in the stream
EOIPlaces == {i \in 1..Len(out) : out[i].token = "EOI"}

\* C26: EndOfInput is terminal: once the state is EndOfInput a step returns no
\* token and leaves the state, the cursor and the stream as they are, so a
\* stream holds exactly one EOI token, its last
C26_EndOfInputTerminal ==
    /\ [][state = EndOfInput =>
            /\ ~step(inp, position, state).some
            /\ state' = state /\ position' = position /\ out' = out]_vars
    /\ [](Cardinality(EOIPlaces) <= 1)
    /\ [](state = EndOfInput => EOIPlaces = {Len(out)})

\* the scan loop called step in EndOfInput and it returned None
C26_Witness ==
    /\ pc = "scanned"
    /\ state = EndOfInput
    /\ Len(out) > 2
    /\ EOIPlaces = {Len(out)}

\* reduce is called on a stack that is LPAREN, two or more expressions, RPAREN
GroupOnWholeStack ==
    /\ pc \in {"reduce_first", "reduce_more"}
    /\ Len(stack) >= 4
    /\ IsToken(stack[1], {"LPAREN"})
    /\ IsToken(stack[Len(stack)], {"RPAREN"})
    /\ \A i \in 2..(Len(stack) - 1) : IsExpr(stack[i])

EoiReached ==
    /\ pc = "finish"
    /\ stack # <<>>
    /\ \A i \in 1..Len(stack) : IsExpr(stack[i])

Trimmed(s) == SubSeq(s, leading_whitespace(s) + 1, trim_end_len(s))

\* a keyword starts at character i of s
KeywordAt(s, i) ==
    \E w \in {<<"A", "N", "D">>, <<"O", "R">>, <<"N", "O", "T">>, <<"&", "&">>, <<"|", "|">>} :
        i + Len(w) - 1 <= Len(s) /\ SubSeq(s, i, i + Len(w) - 1) = w

\* character i of s is a terminator with no backslash in front of it
UnescapedTerminator(s, i) ==
    /\ ~(i > 1 /\ s[i - 1] = "\\")
    /\ \/ is_single_char_termination(s[i])
       \/ i = 1 /\ s[i] \in {"-", "!"}
       \/ KeywordAt(s, i)

\* the lexeme at the start of s: up to its first unescaped terminator, trimmed
Lexeme(s) ==
    IF \E i \in 1..Len(s) : UnescapedTerminator(s, i)
    THEN Trimmed(SubSeq(s, 1, (CHOOSE i \in 1..Len(s) :
                                  /\ UnescapedTerminator(s, i)
                                  /\ \A j \in 1..(i - 1) : ~UnescapedTerminator(s, j)) - 1))
    ELSE Trimmed(s)

\* the first step emitted a TAG at the start of an input without a dot: the
\* identifier scanner ran on the whole input
TagScanned ==
    /\ Len(out) >= 2
    /\ out[2].token = "TAG"
    /\ \A i \in 1..Len(inp) : inp[i] # "."

\* C31: a backslash escapes the terminator after it: an escaped `(`, `)`, `,`,
\* `*`, `?`, `"`, `~`, `^`, an escaped keyword start and an escaped leading `-`
\* or `!` do not end the lexeme and stay in it; unescaped, they end it where
\* they are; the lexeme is trimmed of the whitespace around it
C31_EscapesKeepTerminators ==
    TagScanned => TokenSpan_str(inp, out[2]) = Lexeme(inp)

\* C32: tokenization terminates: the loop of step calls reaches EndOfInput or
\* a state in which nothing matches after at most len(input) + 1 tokens,
\* because a match of length zero is not followed by another, unless that is
\* EOI; and a step tries at most 8 successors
C32_TokenizationTerminates ==
    /\ (pc = "scan") ~> (pc # "scan")
    /\ [](Len(out) - 1 <= Len(inp) + 1)
    /\ [](Len(next_states(state)) <= 8)
    /\ [][pc = "scan" /\ Len(out') > Len(out) /\ state' # EndOfInput =>
             \/ position' > position
             \/ ~step(inp, position', state').some
             \/ step(inp, position', state').position > position'
             \/ step(inp, position', state').state = EndOfInput]_vars

\* the loop ended in EndOfInput with len(input) + 1 tokens after ROOT
C32_Witness ==
    /\ pc = "scanned"
    /\ state = EndOfInput
    /\ inp # <<>>
    /\ Len(out) - 1 = Len(inp) + 1

\* the reduce after a shift that found the stream exhausted before it was
\* called: that shift pushed the look-ahead it was left with and consumed nothing
ReduceAfterStaleShift == pc = "reduce_first" /\ sr_position > Len(sr_input)

MatchedBytes(st, s) ==
    CASE st.s = "Field" -> FieldLexem_find_end(s)
      [] st.s = "Tag" -> TagLexem_find_end(s)
      [] st.s = "DataValue" /\ st.v = "Float" -> FLOAT_find(s)
      [] st.s = "DataValue" /\ st.v = "Integer" -> INTEGER_find(s)
      [] st.s = "DataValue" /\ st.v = "RelativeDate" -> REL_DATE_find(s)
      [] st.s = "DataValue" /\ st.v = "AbsoluteDate" -> ABS_DATE_find(s)
      [] OTHER -> matches(st, s)

\* C34: the byte count the winning matcher reports to the driver is the
\* number of bytes its scanner or regular expression matched: the conversion
\* to 8 bits does not wrap, and the cursor moves past the whole lexeme
C34_ReportedLengthIsMatchedLength ==
    [][StepEmitted =>
          /\ matches(state', SliceFrom(inp, position)) = MatchedBytes(state', SliceFrom(inp, position))
          /\ position' >= position + MatchedBytes(state', SliceFrom(inp, position))]_vars

\* the states of the machine that take a has-comparator, a string or an address
Unreached ==
    {Comparator("Contains"), DataValue("String"), DataValue("IP"), DataValue("CIDR")}

\* C35: Comparator(Contains), DataValue(String), DataValue(IP) and
\* DataValue(CIDR) are never the state of the machine, and no stream has a
\* `has:` RANGE token, an IP_CIDR token or a QUOTED_TERM token
C35_ContainsStringAddressUnreachable ==
    /\ state \notin Unreached
    /\ \A i \in 1..Len(out) :
           /\ out[i].token \notin {"IP_CIDR", "QUOTED_TERM"}
           /\ out[i].token = "RANGE" =>
                  to_ascii_lowercase(TokenSpan_str(inp, out[i])) \notin
                      {<<"h", "a", "s", ":">>, <<".", "h", "a", "s", ":">>}

\* the scan of `f.eq:"aa"` stopped after the comparator: no successor of
\* Comparator(Equal), String among them, matched the quote
C35_Witness ==
    /\ inp = <<"f", ".", "e", "q", ":", "\"", "a", "a", "\"">>
    /\ pc = "scanned"
    /\ state = Comparator("Equal")
    /\ DataValue("String") \in {next_states(state)[i] : i \in 1..Len(next_states(state))}

\* the call made last
LastCall == calls[Len(calls)]

\* the ids below MAX_ID that no Allocated or Tombstone entry holds
FreeIds(s) == (0..(MAX_ID - 1)) \ StoreValues(s)

\* C36: allocate for a tag without an Allocated or Tombstone entry returns
\* an id that no entry holds whenever there is one, None only when there is
\* none, and leaves the ids of the store distinct
C36_AllocateReturnsFreeId ==
    [][Len(calls') > Len(calls) /\ LastCall'.op = "allocate"
            /\ as_option(LastCall'.found) = NONE =>
          /\ IF FreeIds(store) # {} THEN LastCall'.ret \in FreeIds(store)
                                    ELSE LastCall'.ret = NONE
          /\ DistinctIds(store) => DistinctIds(store')]_vars

\* C37: tombstone turns an Allocated entry into a Tombstone of the same id;
\* resolve of a Tombstone entry returns None; only allocate of that tag makes
\* the entry Allocated again, and it returns the id the entry had; deallocate
\* turns a Tombstone entry into Deallocated and returns None, returns the id
\* of an Allocated entry and leaves it, and nothing else makes an entry
\* Deallocated; no call touches the entry of another tag
C37_EntryLifecycle ==
    [][Len(calls') > Len(calls) =>
          LET c == LastCall'
              t == LastCall'.tag
          IN  /\ c.op = "tombstone" /\ store[t].e = "Allocated" =>
                     /\ store'[t] = Tombstone(store[t].id)
                     /\ resolve(store', t).ret = NONE
              /\ c.op = "resolve" /\ store[t].e = "Tombstone" =>
                     c.ret = NONE /\ store' = store
              /\ store[t].e = "Tombstone" /\ store'[t].e = "Allocated" =>
                     c.op = "allocate"
              /\ c.op = "allocate" /\ store[t].e = "Tombstone" =>
                     c.ret = store[t].id /\ store'[t] = Allocated(store[t].id)
              /\ c.op = "deallocate" /\ store[t].e = "Tombstone" =>
                     c.ret = NONE /\ store'[t] = Deallocated
              /\ c.op = "deallocate" /\ store[t].e = "Allocated" =>
                     c.ret = store[t].id /\ store' = store
              /\ store'[t] = Deallocated /\ store[t] # Deallocated =>
                     c.op = "deallocate" /\ store[t].e = "Tombstone"
              /\ \A u \in Tags \ {t} : store'[u] = store[u]]_vars

\* tombstone found the tag Allocated with id 1, resolve then returned None,
\* and allocate gave the tag id 1 again
C37_Witness ==
    /\ calls = <<CallRecord("tombstone", "a", Allocated(1), NONE),
                 CallRecord("resolve", "a", Tombstone(1), NONE),
                 CallRecord("allocate", "a", Tombstone(1), 1)>>
    /\ store["a"] = Allocated(1)

====
